---- MODULE Spec2Model ----
(***************************************************************************)
(* Store management ledger (src/database.py) behind its Flask handlers     *)
(* (src/app.py).                                                            *)
(*                                                                         *)
(* Quantities are Python floats that the ledger rounds to three decimals.  *)
(* They are modelled exactly, as integers counting ten-thousandths         *)
(* (1 = 0.0001), so that round(x, 3) is a real conversion: Milli = 0.001.  *)
(* The store_inventory table is a sequence of rows in rowid order (the     *)
(* table has no UNIQUE constraint on item_name); the transactions table is *)
(* a sequence of rows in id order, with its created_at column kept beside  *)
(* it as the sequence created_at of dates (day numbers), row for row.      *)
(* Columns no property reads (ids, user, rate, amount, vendor, the time of *)
(* day) are left out.                                                      *)
(***************************************************************************)
EXTENDS Integers, Sequences, FiniteSets, TLC

VARIABLES inventory, transactions, response, pc, local, started, low_stock,
          categories, category_seq, created_at, today, history,
          purchase_df, stk_df, leakage,
          sales_df, bom_df, variance, price_trends, menu, session, sheets

vars == <<inventory, transactions, response, pc, local, started, low_stock,
          categories, category_seq, created_at, today, history,
          purchase_df, stk_df, leakage,
          sales_df, bom_df, variance, price_trends, menu, session, sheets>>

dbvars == <<inventory, transactions>>

concvars == <<pc, local, started>>

\* The categories table and its AUTOINCREMENT counter.
catvars == <<categories, category_seq>>

\* The report tool's purchase and store-to-kitchen reports and the leakage
\* analysis last computed from them.
reportvars == <<purchase_df, stk_df, leakage>>

\* The report tool's sales report and recipes, and the variance, price
\* trend and menu engineering analyses last computed.
analysisvars == <<sales_df, bom_df, variance, price_trends, menu>>

\* The state a ledger request neither reads nor writes: what the low-stock
\* query last returned, the categories, the date, what the history query
\* last returned, the report tool, the session cookies of the browsers, and
\* the spreadsheet of the other backend.
sidevars == <<low_stock, catvars, today, history, reportvars, analysisvars, session, sheets>>

\* The state the report tool neither reads nor writes.
storevars == <<inventory, transactions, created_at, response, concvars,
               low_stock, catvars, today, history, session, sheets>>

----------------------------------------------------------------------------
(* Bounds and input sets *)

MaxTxns == 2

MaxReqs == 3

Milli == 10

Tolerance == Milli

ItemNames == {"A", "B"}

Category == "Grocery"

Unit == "KG"

\* -0.001, 0, 0.0003, 0.0014, 0.003 : negative, zero, below the rounding
\* step, between two rounding steps, and an exact three-decimal value.
QtyInputs == {-10, 0, 3, 14, 30}

\* Quantities a manager types into the add and edit forms.
ManagerQtys == {-10, 3, 30}

Threads == {1, 2}

\* The browsers that hold a session cookie of the application (one is
\* followed).
Clients == {1}

----------------------------------------------------------------------------
(* Pure helpers *)

\* Python round(x, 3): nearest multiple of 0.001, ties to even.
Round3(x) ==
    LET lo == (x \div Milli) * Milli
        r  == x - lo
    IN  IF 2 * r < Milli THEN lo
        ELSE IF 2 * r > Milli THEN lo + Milli
        ELSE IF (lo \div Milli) % 2 = 0 THEN lo ELSE lo + Milli

\* SELECT * FROM store_inventory WHERE item_name = ? ; fetchone()
\* : the empty sequence (None) or the first matching row.
fetchone(inv, item_name) ==
    LET m == SelectSeq(inv, LAMBDA r : r.item_name = item_name)
    IN  IF m = <<>> THEN <<>> ELSE <<Head(m)>>

\* FloatLess with the tolerance mistyped as 0.01.
FloatLess_wide(a, q, drift) == a + 10 * Tolerance < q

\* The float comparison  a + 0.001 < q.  Both sides are three-decimal
\* values; when q is exactly a + 0.001 the float sum may fall on either
\* side of q, so the outcome there is the caller's nondeterministic drift.
FloatLess(a, q, drift) ==
    IF q = a + Tolerance THEN drift ELSE a + Tolerance < q

\* ClampNegative with the guard left out.
ClampNegative_none(x) == x

\* if new_quantity < 0: new_quantity = 0
ClampNegative(x) == IF x < 0 THEN 0 ELSE x

Txn(item_name, category, quantity, unit, type, notes) ==
    [item_name |-> item_name, category |-> category, quantity |-> quantity,
     unit |-> unit, transaction_type |-> type, notes |-> notes]

Result(inv, txns, ok, msg) ==
    [inventory |-> inv, transactions |-> txns, ok |-> ok, msg |-> msg]

----------------------------------------------------------------------------
(* database.py : each function is split at its SELECT.  f_commit is what   *)
(* the function does with the row it read (existing) on the tables as they *)
(* are when it writes; f is the function run without interleaving.         *)

\* add_item whose UPDATE leaves total_purchased out.
add_item_commit_stale_total(inv, txns, existing, item_name, category, quantity, unit) ==
    LET q == Round3(quantity)
        new_inv ==
            IF existing # <<>>
            THEN LET new_qty   == Round3(existing[1].quantity + q)
                 IN  [i \in 1..Len(inv) |->
                        IF inv[i].item_name = item_name
                        THEN [inv[i] EXCEPT !.quantity = new_qty]
                        ELSE inv[i]]
            ELSE Append(inv, [item_name |-> item_name, category |-> category,
                              quantity |-> q, unit |-> unit,
                              total_purchased |-> q])
    IN  Result(new_inv,
               Append(txns, Txn(item_name, category, q, unit, "purchase", "")),
               TRUE, "")

\* add_item that logs the purchase only when it inserts the item.
add_item_commit_log_new(inv, txns, existing, item_name, category, quantity, unit) ==
    LET q == Round3(quantity)
        new_inv ==
            IF existing # <<>>
            THEN LET new_qty   == Round3(existing[1].quantity + q)
                     new_total == Round3(existing[1].total_purchased + q)
                 IN  [i \in 1..Len(inv) |->
                        IF inv[i].item_name = item_name
                        THEN [inv[i] EXCEPT !.quantity = new_qty,
                                            !.total_purchased = new_total]
                        ELSE inv[i]]
            ELSE Append(inv, [item_name |-> item_name, category |-> category,
                              quantity |-> q, unit |-> unit,
                              total_purchased |-> q])
    IN  Result(new_inv,
               IF existing # <<>> THEN txns
               ELSE Append(txns, Txn(item_name, category, q, unit, "purchase", "")),
               TRUE, "")

add_item_commit(inv, txns, existing, item_name, category, quantity, unit) ==
    LET q == Round3(quantity)
        new_inv ==
            IF existing # <<>>
            THEN LET new_qty   == Round3(existing[1].quantity + q)
                     new_total == Round3(existing[1].total_purchased + q)
                 IN  [i \in 1..Len(inv) |->
                        IF inv[i].item_name = item_name
                        THEN [inv[i] EXCEPT !.quantity = new_qty,
                                            !.total_purchased = new_total]
                        ELSE inv[i]]
            ELSE Append(inv, [item_name |-> item_name, category |-> category,
                              quantity |-> q, unit |-> unit,
                              total_purchased |-> q])
    IN  Result(new_inv,
               Append(txns, Txn(item_name, category, q, unit, "purchase", "")),
               TRUE, "")

add_item(inv, txns, item_name, category, quantity, unit) ==
    add_item_commit(inv, txns, fetchone(inv, item_name),
                    item_name, category, quantity, unit)

remove_item_commit(inv, txns, existing, item_name, quantity, drift) ==
    LET q == Round3(quantity)
    IN  IF existing = <<>>
        THEN Result(inv, txns, FALSE, "Item not found in inventory")
        ELSE LET available_qty == Round3(existing[1].quantity)
                 new_quantity  == ClampNegative(Round3(available_qty - q))
             IN  IF FloatLess(available_qty, q, drift)
                 THEN Result(inv, txns, FALSE, "Not enough stock")
                 ELSE Result(
                        [i \in 1..Len(inv) |->
                           IF inv[i].item_name = item_name
                           THEN [inv[i] EXCEPT !.quantity = new_quantity]
                           ELSE inv[i]],
                        Append(txns, Txn(item_name, existing[1].category, q,
                                         existing[1].unit, "kitchen", "")),
                        TRUE, "Items removed successfully")

remove_item(inv, txns, item_name, quantity, drift) ==
    remove_item_commit(inv, txns, fetchone(inv, item_name),
                       item_name, quantity, drift)

manager_add_item_commit(inv, txns, existing, item_name, category, quantity, unit) ==
    IF existing # <<>>
    THEN Result(inv, txns, FALSE, "Item already exists. Use edit to modify.")
    ELSE Result(
           \* total_purchased is not in the INSERT: the column default 0
           Append(inv, [item_name |-> item_name, category |-> category,
                        quantity |-> quantity, unit |-> unit,
                        total_purchased |-> 0]),
           Append(txns, Txn(item_name, category, quantity, unit,
                            "manager_add", "Added by manager")),
           TRUE, "Item added successfully")

manager_add_item(inv, txns, item_name, category, quantity, unit) ==
    manager_add_item_commit(inv, txns, fetchone(inv, item_name),
                            item_name, category, quantity, unit)

\* manager_update_item that logs a reduction without abs().
manager_update_item_commit_signed(inv, txns, existing, clash, original_name, item_name, category, quantity, unit) ==
    IF existing = <<>>
    THEN Result(inv, txns, FALSE, "Item not found")
    ELSE IF original_name # item_name /\ clash # <<>>
    THEN Result(inv, txns, FALSE, "An item with that name already exists")
    ELSE LET old_quantity  == existing[1].quantity
             quantity_diff == quantity - old_quantity
             new_inv ==
                 [i \in 1..Len(inv) |->
                    IF inv[i].item_name = original_name
                    THEN [inv[i] EXCEPT !.item_name = item_name,
                                        !.category = category,
                                        !.quantity = quantity,
                                        !.unit = unit]
                    ELSE inv[i]]
             new_txns ==
                 IF quantity_diff = 0 THEN txns
                 ELSE IF quantity_diff > 0
                 THEN Append(txns, Txn(item_name, category, quantity_diff, unit,
                                       "purchase", "Adjusted by Manager"))
                 ELSE Append(txns, Txn(item_name, category, quantity_diff, unit,
                                       "kitchen", "Adjusted by Manager"))
         IN  Result(new_inv, new_txns, TRUE, "Item updated successfully")

\* clash is the row of the second SELECT (the new name), read only when
\* the item is being renamed.
manager_update_item_commit(inv, txns, existing, clash, original_name, item_name, category, quantity, unit) ==
    IF existing = <<>>
    THEN Result(inv, txns, FALSE, "Item not found")
    ELSE IF original_name # item_name /\ clash # <<>>
    THEN Result(inv, txns, FALSE, "An item with that name already exists")
    ELSE LET old_quantity  == existing[1].quantity
             quantity_diff == quantity - old_quantity
             new_inv ==
                 [i \in 1..Len(inv) |->
                    IF inv[i].item_name = original_name
                    THEN [inv[i] EXCEPT !.item_name = item_name,
                                        !.category = category,
                                        !.quantity = quantity,
                                        !.unit = unit]
                    ELSE inv[i]]
             new_txns ==
                 IF quantity_diff = 0 THEN txns
                 ELSE IF quantity_diff > 0
                 THEN Append(txns, Txn(item_name, category, quantity_diff, unit,
                                       "purchase", "Adjusted by Manager"))
                 ELSE Append(txns, Txn(item_name, category, -quantity_diff, unit,
                                       "kitchen", "Adjusted by Manager"))
         IN  Result(new_inv, new_txns, TRUE, "Item updated successfully")

\* manager_update_item without the SELECT for the new name.
manager_update_item_no_clash(inv, txns, original_name, item_name, category, quantity, unit) ==
    manager_update_item_commit(inv, txns, fetchone(inv, original_name),
                               <<>>, original_name,
                               item_name, category, quantity, unit)

manager_update_item(inv, txns, original_name, item_name, category, quantity, unit) ==
    manager_update_item_commit(inv, txns, fetchone(inv, original_name),
                               fetchone(inv, item_name), original_name,
                               item_name, category, quantity, unit)

\* manager_delete_item that logs the quantity left after the DELETE.
manager_delete_item_commit_no_snapshot(inv, txns, existing, item_name) ==
    IF existing = <<>>
    THEN Result(inv, txns, FALSE, "Item not found")
    ELSE Result(
           SelectSeq(inv, LAMBDA r : r.item_name # item_name),
           Append(txns, Txn(existing[1].item_name, existing[1].category,
                            0, existing[1].unit,
                            "manager_delete", "Deleted by manager")),
           TRUE, "Item deleted successfully")

manager_delete_item_commit(inv, txns, existing, item_name) ==
    IF existing = <<>>
    THEN Result(inv, txns, FALSE, "Item not found")
    ELSE Result(
           SelectSeq(inv, LAMBDA r : r.item_name # item_name),
           Append(txns, Txn(existing[1].item_name, existing[1].category,
                            existing[1].quantity, existing[1].unit,
                            "manager_delete", "Deleted by manager")),
           TRUE, "Item deleted successfully")

manager_delete_item(inv, txns, item_name) ==
    manager_delete_item_commit(inv, txns, fetchone(inv, item_name), item_name)

\* Values of <<total_purchased, threshold_percent>>, in IEEE doubles, for
\* which total_purchased * pct / 100.0 comes out above the exact product
\* (0.07 * 10 / 100.0 = 0.007000000000000001) ...
ThresholdRoundsUp == {<<700, 10>>, <<1400, 10>>, <<2800, 10>>}

\* ... and for which it is the exact product (100.0 * 10 / 100.0 = 10.0).
ThresholdExact ==
    {<<t, 10>> : t \in {2100, 1000000, 2000000, 3000000, 4000000}}
    \cup {<<t, 50>> : t \in {700, 1400, 2100, 2800,
                              1000000, 2000000, 3000000, 4000000}}

\* The float comparison  quantity < (total_purchased * pct / 100.0).  It
\* is the exact comparison except when quantity is exactly the threshold:
\* there the float product decides, and for a product not tabulated above
\* the outcome is the caller's nondeterministic up.
BelowThreshold(quantity, total_purchased, threshold_percent, up) ==
    IF quantity * 100 # total_purchased * threshold_percent
    THEN quantity * 100 < total_purchased * threshold_percent
    ELSE IF <<total_purchased, threshold_percent>> \in ThresholdRoundsUp THEN TRUE
    ELSE IF <<total_purchased, threshold_percent>> \in ThresholdExact THEN FALSE
    ELSE up

\* ORDER BY item_name
NameOrder == <<"A", "B">>

RECURSIVE OrderByName(_, _)
OrderByName(rows, names) ==
    IF names = <<>> THEN <<>>
    ELSE SelectSeq(rows, LAMBDA r : r.item_name = Head(names))
         \o OrderByName(rows, Tail(names))

\* up is the set of item names whose float threshold rounds up.
get_low_stock_items(inv, threshold_percent, up) ==
    OrderByName(
        SelectSeq(inv, LAMBDA r :
            /\ r.total_purchased > 0
            /\ BelowThreshold(r.quantity, r.total_purchased, threshold_percent,
                              r.item_name \in up)),
        NameOrder)

\* timedelta(days=30)
RetentionDays == 30

\* The rows of seq at the positions in S, in order.
Pick(seq, S) ==
    LET F[k \in 0..Len(seq)] ==
            IF k = 0 THEN <<>>
            ELSE IF k \in S THEN Append(F[k - 1], seq[k]) ELSE F[k - 1]
    IN  F[Len(seq)]

\* cleanup_old_transactions that deletes with <= instead of <.
cleanup_old_transactions_inclusive(txns, dates, now) ==
    LET keep == {k \in 1..Len(txns) : ~(dates[k] <= now - RetentionDays)}
    IN  [transactions |-> Pick(txns, keep), created_at |-> Pick(dates, keep)]

\* DELETE FROM transactions WHERE DATE(created_at) < thirty_days_ago
cleanup_old_transactions(txns, dates, now) ==
    LET keep == {k \in 1..Len(txns) : ~(dates[k] < now - RetentionDays)}
    IN  [transactions |-> Pick(txns, keep), created_at |-> Pick(dates, keep)]

\* get_transactions() with no filter: the rows of the last 30 days.  ORDER BY
\* created_at DESC leaves rows of the same instant in no defined order, so
\* the answer is kept as the set of its rows, each with its place in the
\* table.
get_transactions(txns, dates, now) ==
    {[row |-> k, transaction |-> txns[k], created_at |-> dates[k]] :
        k \in {j \in 1..Len(txns) : dates[j] >= now - RetentionDays}}

\* The categories init_db inserts, cut to two of the nine; ids are given in
\* the order of insertion.
default_categories == <<[id |-> 1, name |-> "Dairy"], [id |-> 2, name |-> "Grocery"]>>

CatResult(cats, seq, inv, ok, msg) ==
    [categories |-> cats, category_seq |-> seq, inventory |-> inv,
     ok |-> ok, msg |-> msg]

\* SELECT ... FROM categories WHERE id = ? ; fetchone()
category_by_id(cats, category_id) ==
    LET m == SelectSeq(cats, LAMBDA c : c.id = category_id)
    IN  IF m = <<>> THEN <<>> ELSE <<Head(m)>>

\* add_category whose refused INSERT still uses up an id.
add_category_burn_id(cats, seq, inv, name) ==
    IF \E k \in 1..Len(cats) : cats[k].name = name
    THEN CatResult(cats, seq + 1, inv, FALSE, "Category already exists")
    ELSE CatResult(Append(cats, [id |-> seq + 1, name |-> name]), seq + 1, inv,
                   TRUE, "Category added successfully")

\* name is UNIQUE: the INSERT of a name already there raises IntegrityError,
\* which add_category turns into a failure.
add_category(cats, seq, inv, name) ==
    IF \E k \in 1..Len(cats) : cats[k].name = name
    THEN CatResult(cats, seq, inv, FALSE, "Category already exists")
    ELSE CatResult(Append(cats, [id |-> seq + 1, name |-> name]), seq + 1, inv,
                   TRUE, "Category added successfully")

update_category(cats, seq, inv, category_id, new_name) ==
    LET old_cat == category_by_id(cats, category_id)
    IN  IF old_cat = <<>>
        THEN CatResult(cats, seq, inv, FALSE, "Category not found")
        ELSE IF \E k \in 1..Len(cats) :
                   cats[k].name = new_name /\ cats[k].id # category_id
        THEN CatResult(cats, seq, inv, FALSE, "A category with that name already exists")
        ELSE CatResult(
               [k \in 1..Len(cats) |->
                  IF cats[k].id = category_id
                  THEN [cats[k] EXCEPT !.name = new_name] ELSE cats[k]],
               seq,
               [k \in 1..Len(inv) |->
                  IF inv[k].category = old_cat[1].name
                  THEN [inv[k] EXCEPT !.category = new_name] ELSE inv[k]],
               TRUE, "Category updated successfully")

\* delete_category that does not count the items of the category.
delete_category_unchecked(cats, seq, inv, category_id) ==
    LET cat == category_by_id(cats, category_id)
    IN  IF cat = <<>>
        THEN CatResult(cats, seq, inv, FALSE, "Category not found")
        ELSE CatResult(SelectSeq(cats, LAMBDA c : c.id # category_id), seq, inv,
                       TRUE, "Category deleted successfully")

delete_category(cats, seq, inv, category_id) ==
    LET cat == category_by_id(cats, category_id)
    IN  IF cat = <<>>
        THEN CatResult(cats, seq, inv, FALSE, "Category not found")
        ELSE IF Cardinality({k \in 1..Len(inv) : inv[k].category = cat[1].name}) > 0
        THEN CatResult(cats, seq, inv, FALSE, "Cannot delete: items use this category")
        ELSE CatResult(SelectSeq(cats, LAMBDA c : c.id # category_id), seq, inv,
                       TRUE, "Category deleted successfully")

----------------------------------------------------------------------------
(* app.py : the handlers, for a session that passed login_required and     *)
(* role_required.  A handler is its outcome on given tables: the tables it *)
(* leaves and the JSON it answers (success flag, message or error).        *)

\* not all([item_name, category, quantity, unit]) : a quantity of 0.0 is
\* falsy, any other float (a negative one too) is truthy.
api_purchase(inv, txns, item_name, category, quantity, unit) ==
    IF item_name = "" \/ category = "" \/ quantity = 0 \/ unit = ""
    THEN Result(inv, txns, FALSE, "Missing required fields")
    ELSE LET r == add_item(inv, txns, item_name, category, quantity, unit)
         IN  [r EXCEPT !.msg = IF r.ok THEN "Added" ELSE "Failed to add item"]

RECURSIVE api_purchase_upload(_, _, _)
api_purchase_upload(inv, txns, items) ==
    IF items = <<>>
    THEN Result(inv, txns, TRUE, "Successfully added")
    ELSE LET r == add_item(inv, txns, Head(items).item_name, Head(items).category,
                           Head(items).quantity, Head(items).unit)
         IN  api_purchase_upload(r.inventory, r.transactions, Tail(items))

api_kitchen(inv, txns, item_name, quantity, drift) ==
    IF item_name = "" \/ quantity <= 0
    THEN Result(inv, txns, FALSE, "Invalid item or quantity")
    ELSE remove_item(inv, txns, item_name, quantity, drift)

api_manager_add(inv, txns, item_name, category, quantity, unit) ==
    IF item_name = "" \/ category = ""
    THEN Result(inv, txns, FALSE, "Item name and category are required")
    ELSE manager_add_item(inv, txns, item_name, category, quantity, unit)

api_manager_update(inv, txns, original_name, item_name, category, quantity, unit) ==
    IF original_name = "" \/ item_name = "" \/ category = ""
    THEN Result(inv, txns, FALSE, "All fields are required")
    ELSE manager_update_item(inv, txns, original_name, item_name, category, quantity, unit)

api_manager_delete(inv, txns, item_name) ==
    IF item_name = ""
    THEN Result(inv, txns, FALSE, "Item name is required")
    ELSE manager_delete_item(inv, txns, item_name)

\* The table after the cleanup, and the rows answered with their
\* quantities rounded to three decimals.
api_transactions(txns, dates, now) ==
    LET c == cleanup_old_transactions(txns, dates, now)
    IN  [transactions |-> c.transactions,
         created_at   |-> c.created_at,
         history      |-> {[h EXCEPT !.transaction.quantity = Round3(@)] :
                              h \in get_transactions(c.transactions, c.created_at, now)}]

\* name is "" when the request has none.
api_add_category(cats, seq, inv, name) ==
    IF name = ""
    THEN CatResult(cats, seq, inv, FALSE, "Category name is required")
    ELSE add_category(cats, seq, inv, name)

\* category_id is 0 when the request has none (not category_id).
api_update_category(cats, seq, inv, category_id, new_name) ==
    IF category_id = 0 \/ new_name = ""
    THEN CatResult(cats, seq, inv, FALSE, "Category ID and name are required")
    ELSE update_category(cats, seq, inv, category_id, new_name)

api_delete_category(cats, seq, inv, category_id) ==
    IF category_id = 0
    THEN CatResult(cats, seq, inv, FALSE, "Category ID is required")
    ELSE delete_category(cats, seq, inv, category_id)

----------------------------------------------------------------------------
(* The requests a client sends, one action per handler.  Each is the whole *)
(* request run without interleaving.                                       *)

Resp(ok, msg) == [ok |-> ok, msg |-> msg]

Bounded(r) == Len(r.transactions) <= MaxTxns

\* datetime.now() as created_at of the rows a function appended.
Stamp(dates, txns, now) ==
    [k \in 1..Len(txns) |-> IF k <= Len(dates) THEN dates[k] ELSE now]

Serve(r) ==
    /\ Bounded(r)
    /\ inventory' = r.inventory
    /\ transactions' = r.transactions
    /\ created_at' = Stamp(created_at, r.transactions, today)
    /\ response' = Resp(r.ok, r.msg)

UploadRow(item_name, quantity) ==
    [item_name |-> item_name, category |-> Category, quantity |-> quantity, unit |-> Unit]

\* Confirmed preview lists: a zero row, a negative row after a positive
\* one, a row that needs rounding, and the empty list.
UploadInputs ==
    { <<>>,
      <<UploadRow("A", 0)>>,
      <<UploadRow("A", 30), UploadRow("A", -10)>>,
      <<UploadRow("B", 14), UploadRow("A", 30)>> }

Purchase ==
    \E i \in ItemNames, q \in QtyInputs :
        /\ Serve(api_purchase(inventory, transactions, i, Category, q, Unit))
        /\ UNCHANGED <<concvars, sidevars>>

PurchaseUpload ==
    \E items \in UploadInputs :
        /\ Serve(api_purchase_upload(inventory, transactions, items))
        /\ UNCHANGED <<concvars, sidevars>>

\* The outcomes the float comparison of remove_item can have for a request.
DriftOutcomes(inv, item_name, quantity) ==
    IF /\ fetchone(inv, item_name) # <<>>
       /\ Round3(quantity) = Round3(fetchone(inv, item_name)[1].quantity) + Tolerance
    THEN BOOLEAN ELSE {FALSE}

Kitchen ==
    \E i \in ItemNames, q \in QtyInputs :
        \E drift \in DriftOutcomes(inventory, i, q) :
            /\ Serve(api_kitchen(inventory, transactions, i, q, drift))
            /\ UNCHANGED <<concvars, sidevars>>

ManagerAdd ==
    \E i \in ItemNames, q \in ManagerQtys :
        /\ Serve(api_manager_add(inventory, transactions, i, Category, q, Unit))
        /\ UNCHANGED <<concvars, sidevars>>

ManagerUpdate ==
    \E o \in ItemNames, i \in ItemNames, q \in ManagerQtys :
        /\ Serve(api_manager_update(inventory, transactions, o, i, Category, q, Unit))
        /\ UNCHANGED <<concvars, sidevars>>

ManagerDelete ==
    \E i \in ItemNames :
        /\ Serve(api_manager_delete(inventory, transactions, i))
        /\ UNCHANGED <<concvars, sidevars>>

Init ==
    /\ inventory = <<>>
    /\ transactions = <<>>
    /\ response = Resp(TRUE, "")
    /\ pc = [t \in Threads |-> "idle"]
    /\ local = [t \in Threads |-> <<>>]
    /\ started = <<>>
    /\ low_stock = <<>>
    /\ categories = default_categories
    /\ category_seq = Len(default_categories)
    /\ created_at = <<>>
    /\ today = 0
    /\ history = {}
    /\ purchase_df = <<>>
    /\ stk_df = <<>>
    /\ leakage = [by |-> "", rows |-> <<>>, status |-> <<>>]
    /\ sales_df = <<>>
    /\ bom_df = <<>>
    /\ variance = [by |-> "", rows |-> <<>>]
    /\ price_trends = [by |-> "", rows |-> <<>>]
    /\ menu = [by |-> "", rows |-> <<>>,
               avg_profit |-> [kind |-> "nan", sum |-> 0, count |-> 0, up |-> FALSE]]
    /\ session = [c \in Clients |-> <<>>]
    /\ sheets = [inventory |-> <<>>, transactions |-> <<>>, ok |-> TRUE]

Next ==
    \/ Purchase
    \/ PurchaseUpload
    \/ Kitchen
    \/ ManagerAdd
    \/ ManagerUpdate
    \/ ManagerDelete

Spec == Init /\ [][Next]_vars

----------------------------------------------------------------------------
(* The low-stock query on a ledger that purchases and issues have filled. *)

ThresholdPercents == {10, 50}

\* 0.07, 0.14 and 100.0
StockPurchases == {700, 1400, 1000000}

\* 0.063, 0.126, 90.0 and 91.0
StockIssues == {630, 1260, 900000, 910000}

PurchaseStock ==
    \E i \in ItemNames, q \in StockPurchases :
        /\ Serve(api_purchase(inventory, transactions, i, Category, q, Unit))
        /\ UNCHANGED <<concvars, sidevars>>

KitchenStock ==
    \E i \in ItemNames, q \in StockIssues :
        /\ Serve(api_kitchen(inventory, transactions, i, q, FALSE))
        /\ UNCHANGED <<concvars, sidevars>>

LowStock ==
    \E threshold_percent \in ThresholdPercents, up \in SUBSET ItemNames :
        /\ low_stock' = get_low_stock_items(inventory, threshold_percent, up)
        /\ UNCHANGED <<inventory, transactions, created_at, response, concvars,
                       catvars, today, history, reportvars, analysisvars,
                       session, sheets>>

NextLowStock ==
    \/ PurchaseStock
    \/ KitchenStock
    \/ LowStock

SpecLowStock == Init /\ [][NextLowStock]_vars

----------------------------------------------------------------------------
(* Category management, on an inventory whose items a manager adds under   *)
(* the categories and deletes, and the kitchen asks too much of.           *)

MaxCategoryId == 3

\* Names a request gives a category: none, one in use and a new one.
CategoryNames == {"", "Grocery", "Sauce"}

CategoryIds == 0..MaxCategoryId

ServeCategory(r) ==
    /\ categories' = r.categories
    /\ category_seq' = r.category_seq
    /\ inventory' = r.inventory
    /\ response' = Resp(r.ok, r.msg)

AddCategory ==
    \E name \in CategoryNames :
        /\ category_seq < MaxCategoryId
        /\ ServeCategory(api_add_category(categories, category_seq, inventory, name))
        /\ UNCHANGED <<transactions, created_at, concvars, low_stock, today, history,
                       reportvars, analysisvars, session, sheets>>

UpdateCategory ==
    \E category_id \in CategoryIds, new_name \in CategoryNames :
        /\ ServeCategory(api_update_category(categories, category_seq, inventory,
                                             category_id, new_name))
        /\ UNCHANGED <<transactions, created_at, concvars, low_stock, today, history,
                       reportvars, analysisvars, session, sheets>>

DeleteCategory ==
    \E category_id \in CategoryIds :
        /\ ServeCategory(api_delete_category(categories, category_seq, inventory,
                                             category_id))
        /\ UNCHANGED <<transactions, created_at, concvars, low_stock, today, history,
                       reportvars, analysisvars, session, sheets>>

\* The manager adds an item of 0.003 under one of the categories.
ManagerAddIn ==
    \E i \in ItemNames, c \in {"Dairy", "Grocery"} :
        /\ Serve(api_manager_add(inventory, transactions, i, c, 30, Unit))
        /\ UNCHANGED <<concvars, sidevars>>

\* The kitchen asks for 0.005, more than any item holds.
KitchenOf ==
    \E i \in ItemNames, q \in {50} :
        /\ Serve(api_kitchen(inventory, transactions, i, q, FALSE))
        /\ UNCHANGED <<concvars, sidevars>>

NextCategories ==
    \/ AddCategory
    \/ UpdateCategory
    \/ DeleteCategory
    \/ ManagerAddIn
    \/ KitchenOf
    \/ ManagerDelete

SpecCategories == Init /\ [][NextCategories]_vars

----------------------------------------------------------------------------
(* The transaction history over the days: purchases and manager deletes    *)
(* fill the log, the date moves on, and every request for the history      *)
(* first runs the retention cleanup.                                       *)

MaxDay == 41

\* Days that pass between two requests.
DaySteps == {10, 11}

Tick ==
    \E d \in DaySteps :
        /\ today + d <= MaxDay
        /\ today' = today + d
        /\ UNCHANGED <<inventory, transactions, created_at, response, concvars,
                       low_stock, catvars, history, reportvars, analysisvars,
                       session, sheets>>

Transactions ==
    LET r == api_transactions(transactions, created_at, today)
    IN  /\ transactions' = r.transactions
        /\ created_at' = r.created_at
        /\ history' = r.history
        /\ UNCHANGED <<inventory, response, concvars, low_stock, catvars, today,
                       reportvars, analysisvars, session, sheets>>

\* A purchase of 0.003 on the current day.
PurchaseToday ==
    \E i \in ItemNames :
        /\ Serve(api_purchase(inventory, transactions, i, Category, 30, Unit))
        /\ UNCHANGED <<concvars, sidevars>>

NextRetention ==
    \/ PurchaseToday
    \/ ManagerDelete
    \/ Tick
    \/ Transactions

SpecRetention == Init /\ [][NextRetention]_vars

----------------------------------------------------------------------------
(* Concurrent requests.  get_db() opens a new connection per call and the  *)
(* sqlite3 module begins a transaction only before the first INSERT /      *)
(* UPDATE / DELETE, so a function's SELECT reads the committed tables in   *)
(* a step of its own, and its writes become visible together at commit().  *)
(* pc[t] is where request thread t stands, local[t] its arguments and the  *)
(* rows it has read, started the requests that reached the database.       *)

Req(op, item_name, new_name, quantity, drift) ==
    [op |-> op, item_name |-> item_name, new_name |-> new_name,
     quantity |-> quantity, drift |-> drift]

ConcQtys == {14, 30}

ConcRequests ==
    {Req("purchase", i, i, q, FALSE) : i \in ItemNames, q \in ConcQtys}
    \cup {Req("kitchen", i, i, q, FALSE) : i \in ItemNames, q \in ConcQtys}
    \cup {Req("manager_add", i, i, q, FALSE) : i \in ItemNames, q \in {30}}
    \cup {Req("manager_update", i, n, q, FALSE) : i \in ItemNames, n \in ItemNames, q \in {14}}
    \cup {Req("manager_delete", i, i, 0, FALSE) : i \in {"A"}}

\* The handler up to and including the function's first SELECT.
Select(t) ==
    /\ pc[t] = "idle"
    /\ Len(started) < MaxReqs
    /\ \E req \in ConcRequests :
          /\ started' = Append(started, req)
          /\ local' = [local EXCEPT ![t] =
                 <<[req |-> req, existing |-> fetchone(inventory, req.item_name),
                    clash |-> <<>>]>>]
          /\ pc' = [pc EXCEPT ![t] =
                 IF /\ req.op = "manager_update"
                    /\ fetchone(inventory, req.item_name) # <<>>
                    /\ req.item_name # req.new_name
                 THEN "renaming" ELSE "selected"]
    /\ UNCHANGED <<inventory, transactions, created_at, response, sidevars>>

\* manager_update_item's second SELECT, for the new name.
SelectClash(t) ==
    /\ pc[t] = "renaming"
    /\ local' = [local EXCEPT ![t] =
           <<[local[t][1] EXCEPT !.clash = fetchone(inventory, local[t][1].req.new_name)]>>]
    /\ pc' = [pc EXCEPT ![t] = "selected"]
    /\ UNCHANGED <<inventory, transactions, created_at, response, started, sidevars>>

\* What a function does after its SELECTs, given the rows they returned.
commit_with(inv, txns, req, existing, clash) ==
    CASE req.op = "purchase" ->
           add_item_commit(inv, txns, existing, req.item_name, Category, req.quantity, Unit)
      [] req.op = "kitchen" ->
           remove_item_commit(inv, txns, existing, req.item_name, req.quantity, req.drift)
      [] req.op = "manager_add" ->
           manager_add_item_commit(inv, txns, existing, req.item_name, Category, req.quantity, Unit)
      [] req.op = "manager_update" ->
           manager_update_item_commit(inv, txns, existing, clash, req.item_name,
                                      req.new_name, Category, req.quantity, Unit)
      [] req.op = "manager_delete" ->
           manager_delete_item_commit(inv, txns, existing, req.item_name)

\* The rest of the function: its writes, the commit and the response.
Write(t) ==
    /\ pc[t] = "selected"
    /\ LET r == commit_with(inventory, transactions, local[t][1].req,
                            local[t][1].existing, local[t][1].clash)
       IN  /\ inventory' = r.inventory
           /\ transactions' = r.transactions
           /\ created_at' = Stamp(created_at, r.transactions, today)
           /\ response' = Resp(r.ok, r.msg)
    /\ pc' = [pc EXCEPT ![t] = "idle"]
    /\ local' = [local EXCEPT ![t] = <<>>]
    /\ UNCHANGED <<started, sidevars>>

NextConc == \E t \in Threads : Select(t) \/ SelectClash(t) \/ Write(t)

SpecConc == Init /\ [][NextConc]_vars

\* One request run alone: its SELECTs and its writes on the same tables.
serial(inv, txns, req) ==
    commit_with(inv, txns, req, fetchone(inv, req.item_name), fetchone(inv, req.new_name))

RECURSIVE SerialRun(_, _, _, _)
SerialRun(inv, txns, reqs, order) ==
    IF order = <<>>
    THEN inv
    ELSE LET r == serial(inv, txns, reqs[Head(order)])
         IN  SerialRun(r.inventory, r.transactions, reqs, Tail(order))

Orders(n) == {o \in [1..n -> 1..n] : \A i, j \in 1..n : o[i] = o[j] => i = j}

Ledger(inv) ==
    {<<inv[i].item_name, inv[i].quantity, inv[i].total_purchased>> : i \in 1..Len(inv)}

AllIdle == \A t \in Threads : pc[t] = "idle"

----------------------------------------------------------------------------
(* The write transaction statement by statement.  The first INSERT /       *)
(* UPDATE / DELETE of a function opens a transaction on its connection and *)
(* takes the database's write lock; until commit() the statements change   *)
(* only what that connection sees, and the other connections keep reading  *)
(* the committed tables.  local[t] holds, beside the request and the rows  *)
(* read, the function's outcome (result) and how many of its write         *)
(* statements have run (done).                                             *)

\* The tables as the writing connection sees them after each of its write
\* statements, with the inventory statement first.
statements_log_first(r, inv, txns) ==
    IF r.transactions = txns
    THEN <<[inventory |-> r.inventory, transactions |-> txns]>>
    ELSE <<[inventory |-> inv, transactions |-> r.transactions],
           [inventory |-> r.inventory, transactions |-> r.transactions]>>

\* cursor.execute(UPDATE / INSERT / DELETE on store_inventory), then
\* cursor.execute(INSERT INTO transactions) when the function logs.
statements(r, inv, txns) ==
    IF r.transactions = txns
    THEN <<[inventory |-> r.inventory, transactions |-> txns]>>
    ELSE <<[inventory |-> r.inventory, transactions |-> txns],
           [inventory |-> r.inventory, transactions |-> r.transactions]>>

StatementRequests ==
    {Req("purchase", i, i, 30, FALSE) : i \in ItemNames}
    \cup {Req("kitchen", "A", "A", q, FALSE) : q \in {14, 50}}
    \cup {Req("manager_update", "A", "A", q, FALSE) : q \in {14, 30}}
    \cup {Req("manager_delete", "A", "A", 0, FALSE)}

\* The handler up to and including the function's SELECT.
SelectRow(t) ==
    /\ pc[t] = "idle"
    /\ Len(started) < MaxReqs
    /\ \E req \in StatementRequests :
          /\ started' = Append(started, req)
          /\ local' = [local EXCEPT ![t] =
                 <<[req |-> req, existing |-> fetchone(inventory, req.item_name),
                    clash |-> <<>>]>>]
    /\ pc' = [pc EXCEPT ![t] = "selected"]
    /\ UNCHANGED <<inventory, transactions, created_at, response, sidevars>>

Outcome(t) ==
    commit_with(inventory, transactions, local[t][1].req,
                local[t][1].existing, local[t][1].clash)

\* A function that returns (False, message) before any write.
Refuse(t) ==
    /\ pc[t] = "selected"
    /\ ~Outcome(t).ok
    /\ response' = Resp(Outcome(t).ok, Outcome(t).msg)
    /\ pc' = [pc EXCEPT ![t] = "idle"]
    /\ local' = [local EXCEPT ![t] = <<>>]
    /\ UNCHANGED <<inventory, transactions, created_at, started, sidevars>>

\* The first write statement: it waits for the write lock.
Begin(t) ==
    /\ pc[t] = "selected"
    /\ Outcome(t).ok
    /\ \A u \in Threads : pc[u] # "writing"
    /\ local' = [local EXCEPT ![t] =
           <<[req |-> local[t][1].req, existing |-> local[t][1].existing,
              clash |-> local[t][1].clash, result |-> Outcome(t), done |-> 1]>>]
    /\ pc' = [pc EXCEPT ![t] = "writing"]
    /\ UNCHANGED <<inventory, transactions, created_at, response, started, sidevars>>

Statements(t) == statements(local[t][1].result, inventory, transactions)

\* The next write statement of the open transaction.
Execute(t) ==
    /\ pc[t] = "writing"
    /\ local[t][1].done < Len(Statements(t))
    /\ local' = [local EXCEPT ![t] =
           <<[local[t][1] EXCEPT !.done = local[t][1].done + 1]>>]
    /\ UNCHANGED <<inventory, transactions, created_at, response, pc, started, sidevars>>

\* conn.commit() and the response.
Commit(t) ==
    /\ pc[t] = "writing"
    /\ local[t][1].done = Len(Statements(t))
    /\ inventory' = Statements(t)[local[t][1].done].inventory
    /\ transactions' = Statements(t)[local[t][1].done].transactions
    /\ created_at' = Stamp(created_at, transactions', today)
    /\ response' = Resp(local[t][1].result.ok, local[t][1].result.msg)
    /\ pc' = [pc EXCEPT ![t] = "idle"]
    /\ local' = [local EXCEPT ![t] = <<>>]
    /\ UNCHANGED <<started, sidevars>>

NextStatements ==
    \E t \in Threads :
        SelectRow(t) \/ Refuse(t) \/ Begin(t) \/ Execute(t) \/ Commit(t)

SpecStatements == Init /\ [][NextStatements]_vars

\* What the connection of thread t sees: its own uncommitted statements
\* over the committed tables.
View(t) ==
    IF pc[t] = "writing"
    THEN Statements(t)[local[t][1].done]
    ELSE [inventory |-> inventory, transactions |-> transactions]

----------------------------------------------------------------------------
(* The report tool (src/Restuarant Report).  purchase_df and stk_df are    *)
(* the purchase and store-to-kitchen reports, row by row; quantities are   *)
(* whole units.  A float of the analysis is either a number, kept in       *)
(* hundredths because every percentage is rounded to two decimals, or one  *)
(* of the IEEE results of a division by zero.                              *)

MaxRows == 2

PurchasedInputs == {0, 3, 20}

IssuedInputs == {17, 18}

Num(hundredths) == [kind |-> "num", hundredths |-> hundredths]

NaN == [kind |-> "nan", hundredths |-> 0]

NegInf == [kind |-> "-inf", hundredths |-> 0]

PosInf == [kind |-> "inf", hundredths |-> 0]

\* a / b rounded to the nearest integer, a tie going to the even one.
RoundHalfEven(a, b) ==
    LET q == a \div b
        r == a % b
    IN  IF 2 * r < b THEN q
        ELSE IF 2 * r > b THEN q + 1
        ELSE IF q % 2 = 0 THEN q ELSE q + 1

\* (difference / total * 100).round(2) on a float column: x / 0 is inf or
\* -inf by the sign of x, and 0 / 0 is NaN.  No total of the inputs is a
\* multiple of 32, so no quotient falls on a rounding tie.
Percent(difference, total) ==
    IF total # 0 THEN Num(RoundHalfEven(10000 * difference, total))
    ELSE IF difference > 0 THEN PosInf
    ELSE IF difference < 0 THEN NegInf
    ELSE NaN

\* .replace([np.inf, -np.inf], 0).fillna(0)
ReplaceInfNaN(x) == IF x.kind = "num" THEN x ELSE Num(0)

\* x > percent for a float x and a whole percent: false for NaN and -inf.
Above(x, percent) ==
    \/ x.kind = "inf"
    \/ x.kind = "num" /\ x.hundredths > 100 * percent

RECURSIVE GroupSum(_, _)
\* groupby('Item Name') ... 'sum' for one item.
GroupSum(df, item_name) ==
    IF df = <<>> THEN 0
    ELSE (IF Head(df).item_name = item_name THEN Head(df).quantity ELSE 0)
         + GroupSum(Tail(df), item_name)

Grouped(df) == {df[k].item_name : k \in 1..Len(df)}

\* purchased.join(issued, how='outer').fillna(0) and the Difference column:
\* one row per item of either report, in index order.
JoinRow(item_name, total_purchased, total_issued) ==
    [item_name |-> item_name, total_purchased |-> total_purchased,
     total_issued |-> total_issued, difference |-> total_purchased - total_issued]

RECURSIVE JoinRows(_, _, _)
JoinRows(index, purchase, stk) ==
    IF index = <<>> THEN <<>>
    ELSE <<JoinRow(Head(index), GroupSum(purchase, Head(index)), GroupSum(stk, Head(index)))>>
         \o JoinRows(Tail(index), purchase, stk)

OuterJoin(purchase, stk) ==
    JoinRows(SelectSeq(NameOrder, LAMBDA n : n \in Grouped(purchase) \cup Grouped(stk)),
             purchase, stk)

\* a comes before b in sort_values(ascending=False): NaN goes last.
SortsBefore(a, b) ==
    /\ a.kind # "nan"
    /\ \/ b.kind = "nan"
       \/ a.kind = "inf" /\ b.kind # "inf"
       \/ b.kind = "-inf" /\ a.kind # "-inf"
       \/ a.kind = "num" /\ b.kind = "num" /\ a.hundredths > b.hundredths

RECURSIVE InsertDescending(_, _)
InsertDescending(row, sorted) ==
    IF sorted = <<>> THEN <<row>>
    ELSE IF SortsBefore(row.leakage_pct, Head(sorted).leakage_pct)
         THEN <<row>> \o sorted
         ELSE <<Head(sorted)>> \o InsertDescending(row, Tail(sorted))

RECURSIVE SortDescending(_, _)
\* sort_values('Leakage %', ascending=False); equal values keep their order.
SortDescending(rows, sorted) ==
    IF rows = <<>> THEN sorted
    ELSE SortDescending(Tail(rows), InsertDescending(Head(rows), sorted))

WithPercent(row, pct) ==
    [item_name |-> row.item_name, total_purchased |-> row.total_purchased,
     total_issued |-> row.total_issued, leakage_pct |-> pct]

RECURSIVE LeakagePercent(_)
\* analysis['Leakage %'] = ..., row by row.
LeakagePercent(analysis) ==
    IF analysis = <<>> THEN <<>>
    ELSE <<WithPercent(Head(analysis),
                       Percent(Head(analysis).difference, Head(analysis).total_purchased))>>
         \o LeakagePercent(Tail(analysis))

RECURSIVE ReplaceAll(_)
\* analysis.replace([np.inf, -np.inf], 0).fillna(0), row by row.
ReplaceAll(analysis) ==
    IF analysis = <<>> THEN <<>>
    ELSE <<WithPercent(Head(analysis), ReplaceInfNaN(Head(analysis).leakage_pct))>>
         \o ReplaceAll(Tail(analysis))

\* analysis.py RestaurantAnalyzer.leakage_waste_analysis
leakage_waste_analysis(purchase, stk) ==
    SortDescending(LeakagePercent(OuterJoin(purchase, stk)), <<>>)

\* app.py RestaurantAnalyzer.leakage_analysis
leakage_analysis(purchase, stk) ==
    SortDescending(ReplaceAll(LeakagePercent(OuterJoin(purchase, stk))), <<>>)

HighPercent == 15

WarningPercent == 10

\* status with >= in place of >.
status_inclusive(pct) ==
    IF Above(pct, HighPercent) \/ pct = Num(100 * HighPercent) THEN "HIGH ALERT"
    ELSE IF Above(pct, WarningPercent) \/ pct = Num(100 * WarningPercent) THEN "WARNING"
    ELSE ""

\* analysis.py:74, the status printed beside a row.
status(pct) ==
    IF Above(pct, HighPercent) THEN "HIGH ALERT"
    ELSE IF Above(pct, WarningPercent) THEN "WARNING"
    ELSE ""

\* generate_report.py:269, the badge of a row of the leakage table.
status_text(pct) ==
    IF Above(pct, HighPercent) THEN "HIGH"
    ELSE IF Above(pct, WarningPercent) THEN "MEDIUM"
    ELSE "OK"

TableRows == 15

\* leakage_df.head(15)
head(rows) == SubSeq(rows, 1, IF Len(rows) < TableRows THEN Len(rows) ELSE TableRows)

\* analysis.py:73-75, the rows printed with their status.
Printed(rows) ==
    [by |-> "analysis.py", rows |-> rows,
     status |-> [k \in 1..Len(rows) |-> status(rows[k].leakage_pct)]]

\* generate_report.py:267-269, the leakage table with its badges.
Table(rows) ==
    [by |-> "generate_report.py", rows |-> rows,
     status |-> [k \in 1..Len(head(rows)) |-> status_text(rows[k].leakage_pct)]]

\* The tool has read its reports: load_data runs once, in the constructor,
\* before any analysis.
Loaded ==
    \/ leakage.by # ""
    \/ variance.by # ""
    \/ price_trends.by # ""
    \/ menu.by # ""

ReportRow(item_name, quantity) == [item_name |-> item_name, quantity |-> quantity]

\* One more row of purchase_report.csv, before the tool loads the reports.
PurchaseReportRow ==
    \E i \in ItemNames, q \in PurchasedInputs :
        /\ ~Loaded
        /\ Len(purchase_df) < MaxRows
        /\ purchase_df' = Append(purchase_df, ReportRow(i, q))
        /\ UNCHANGED <<storevars, stk_df, leakage, analysisvars>>

\* One more row of store_to_kitchen_report.csv, before the tool loads the
\* reports.
IssueReportRow ==
    \E i \in ItemNames, q \in IssuedInputs :
        /\ ~Loaded
        /\ Len(stk_df) < MaxRows
        /\ stk_df' = Append(stk_df, ReportRow(i, q))
        /\ UNCHANGED <<storevars, purchase_df, leakage, analysisvars>>

\* python analysis.py: the analysis and the status it prints row by row.
LeakageWasteAnalysis ==
    /\ leakage' = Printed(leakage_waste_analysis(purchase_df, stk_df))
    /\ UNCHANGED <<storevars, purchase_df, stk_df, analysisvars>>

\* python generate_report.py: the same analysis and the badges of the
\* leakage table.
GenerateReport ==
    /\ leakage' = Table(leakage_waste_analysis(purchase_df, stk_df))
    /\ UNCHANGED <<storevars, purchase_df, stk_df, analysisvars>>

\* GET /api/leakage
ApiLeakage ==
    /\ leakage' = [by |-> "app.py",
                   rows |-> leakage_analysis(purchase_df, stk_df),
                   status |-> <<>>]
    /\ UNCHANGED <<storevars, purchase_df, stk_df, analysisvars>>

NextReport ==
    \/ PurchaseReportRow
    \/ IssueReportRow
    \/ LeakageWasteAnalysis
    \/ GenerateReport
    \/ ApiLeakage

SpecReport == Init /\ [][NextReport]_vars

----------------------------------------------------------------------------
(* The variance analysis of analysis.py: what the sales and the recipes    *)
(* say the kitchen needed of each ingredient against what the store        *)
(* issued.  Recipe quantities are whole units like the report quantities.  *)

MenuItems == {"M", "N"}

SoldInputs == {0, 2}

RecipeRow(menu_item, ingredient, quantity_required) ==
    [menu_item |-> menu_item, ingredient |-> ingredient,
     quantity_required |-> quantity_required]

\* recipes_bom.csv: one ingredient of one dish, the same ingredient in two
\* dishes, two ingredients of one dish, and a dish that is never sold.
Boms ==
    {<<RecipeRow("M", "A", 5)>>,
     <<RecipeRow("M", "A", 5), RecipeRow("N", "A", 3)>>,
     <<RecipeRow("M", "A", 5), RecipeRow("M", "B", 3)>>,
     <<RecipeRow("P", "B", 3), RecipeRow("M", "A", 5)>>}

RECURSIVE theoretical_last(_, _, _)
RECURSIVE theoretical(_, _, _)
\* The loop with theoretical[ingredient] = ... in place of +=.
theoretical_last(bom, sales, ingredient) ==
    IF bom = <<>> THEN 0
    ELSE LET row == bom[Len(bom)]
         IN  IF row.ingredient = ingredient /\ row.menu_item \in Grouped(sales)
             THEN GroupSum(sales, row.menu_item) * row.quantity_required
             ELSE theoretical_last(SubSeq(bom, 1, Len(bom) - 1), sales, ingredient)

\* for _, row in self.bom_df.iterrows(): ... theoretical[ingredient] +=
\* units_sold * qty_per_unit, for one ingredient.
theoretical(bom, sales, ingredient) ==
    IF bom = <<>> THEN 0
    ELSE (IF Head(bom).ingredient = ingredient /\ Head(bom).menu_item \in Grouped(sales)
          THEN GroupSum(sales, Head(bom).menu_item) * Head(bom).quantity_required
          ELSE 0)
         + theoretical(Tail(bom), sales, ingredient)

\* The keys of the theoretical dict: the ingredients of the dishes sold.
TheoreticalKeys(bom, sales) ==
    {bom[k].ingredient : k \in {j \in 1..Len(bom) : bom[j].menu_item \in Grouped(sales)}}

\* .replace([np.inf, -np.inf], 0): NaN stays.
ReplaceInf(x) == IF x.kind \in {"inf", "-inf"} THEN Num(0) ELSE x

VarianceRow(ingredient, theoretical_needed, actual_issued) ==
    [item_name |-> ingredient, theoretical |-> theoretical_needed,
     actual_issued |-> actual_issued,
     variance |-> actual_issued - theoretical_needed,
     variance_pct |-> ReplaceInf(Percent(actual_issued - theoretical_needed,
                                         theoretical_needed))]

RECURSIVE VarianceRows(_, _, _, _)
\* theoretical_df.join(actual_df, how='outer').fillna(0) and the Variance
\* and Variance % columns, in index order.
VarianceRows(index, stk, sales, bom) ==
    IF index = <<>> THEN <<>>
    ELSE <<VarianceRow(Head(index),
                       IF Head(index) \in TheoreticalKeys(bom, sales)
                       THEN theoretical(bom, sales, Head(index)) ELSE 0,
                       GroupSum(stk, Head(index)))>>
         \o VarianceRows(Tail(index), stk, sales, bom)

RECURSIVE InsertByVariance(_, _)
InsertByVariance(row, sorted) ==
    IF sorted = <<>> THEN <<row>>
    ELSE IF SortsBefore(row.variance_pct, Head(sorted).variance_pct)
         THEN <<row>> \o sorted
         ELSE <<Head(sorted)>> \o InsertByVariance(row, Tail(sorted))

RECURSIVE SortByVariance(_, _)
\* sort_values('Variance %', ascending=False); equal values keep their order.
SortByVariance(rows, sorted) ==
    IF rows = <<>> THEN sorted
    ELSE SortByVariance(Tail(rows), InsertByVariance(Head(rows), sorted))

\* analysis.py RestaurantAnalyzer.variance_analysis
variance_analysis(stk, sales, bom) ==
    SortByVariance(
        VarianceRows(
            SelectSeq(NameOrder,
                      LAMBDA n : n \in TheoreticalKeys(bom, sales) \cup Grouped(stk)),
            stk, sales, bom),
        <<>>)

\* One more row of sales_report.csv.
SalesReportRow ==
    \E i \in MenuItems, q \in SoldInputs :
        /\ ~Loaded
        /\ Len(sales_df) < MaxRows
        /\ sales_df' = Append(sales_df, ReportRow(i, q))
        /\ UNCHANGED <<storevars, reportvars, bom_df, variance, price_trends, menu>>

\* recipes_bom.csv is written.
RecipesBom ==
    \E bom \in Boms :
        /\ ~Loaded
        /\ bom_df = <<>>
        /\ bom_df' = bom
        /\ UNCHANGED <<storevars, reportvars, sales_df, variance, price_trends, menu>>

VarianceAnalysis ==
    /\ variance' = [by |-> "analysis.py",
                    rows |-> variance_analysis(stk_df, sales_df, bom_df)]
    /\ UNCHANGED <<storevars, reportvars, sales_df, bom_df, price_trends, menu>>

NextVariance ==
    \/ IssueReportRow
    \/ SalesReportRow
    \/ RecipesBom
    \/ VarianceAnalysis

SpecVariance == Init /\ [][NextVariance]_vars

----------------------------------------------------------------------------
(* Price trends.  A purchase report row carries here its date (a day       *)
(* number), its rate and its amount; one unit is bought per row, so the    *)
(* amount is the rate.  A price change is a float that is not always a     *)
(* whole number of hundredths, so it is kept as the quotient num / den.    *)

RateInputs == {0, 50, 100, 120}

DateInputs == {1, 2}

TopItems == 5

PriceRow(item_name, date, rate) ==
    [item_name |-> item_name, quantity |-> 1, date |-> date, rate |-> rate,
     amount |-> rate]

Ratio(num, den) == [kind |-> "num", num |-> num, den |-> den]

RatioNaN == [kind |-> "nan", num |-> 0, den |-> 1]

RatioInf == [kind |-> "inf", num |-> 0, den |-> 1]

RatioNegInf == [kind |-> "-inf", num |-> 0, den |-> 1]

\* (last_price - first_price) / first_price * 100 on numpy scalars: a
\* division by zero gives inf, -inf or NaN.
Change(first_price, last_price) ==
    IF first_price # 0 THEN Ratio(100 * (last_price - first_price), first_price)
    ELSE IF last_price > first_price THEN RatioInf
    ELSE IF last_price < first_price THEN RatioNegInf
    ELSE RatioNaN

\* round(change, 2) of a finite change.  No rate of the inputs is a
\* multiple of 32, so no quotient falls on a rounding tie.
RoundChange(change) ==
    Ratio(RoundHalfEven(100 * change.num, change.den), 100)

RECURSIVE AmountSum(_, _)
\* groupby('Item Name')['Amount'].sum() for one item.
AmountSum(df, item_name) ==
    IF df = <<>> THEN 0
    ELSE (IF Head(df).item_name = item_name THEN Head(df).amount ELSE 0)
         + AmountSum(Tail(df), item_name)

RECURSIVE InsertByAmount(_, _, _)
InsertByAmount(item_name, sorted, df) ==
    IF sorted = <<>> THEN <<item_name>>
    ELSE IF AmountSum(df, item_name) > AmountSum(df, Head(sorted))
         THEN <<item_name>> \o sorted
         ELSE <<Head(sorted)>> \o InsertByAmount(item_name, Tail(sorted), df)

RECURSIVE LargestFirst(_, _, _)
LargestFirst(index, sorted, df) ==
    IF index = <<>> THEN sorted
    ELSE LargestFirst(Tail(index), InsertByAmount(Head(index), sorted, df), df)

\* groupby('Item Name')['Amount'].sum().nlargest(5).index.tolist()
top_items(df) ==
    LET ordered == LargestFirst(SelectSeq(NameOrder, LAMBDA n : n \in Grouped(df)),
                                <<>>, df)
    IN  SubSeq(ordered, 1, IF Len(ordered) < TopItems THEN Len(ordered) ELSE TopItems)

RECURSIVE InsertByDate(_, _)
InsertByDate(row, sorted) ==
    IF sorted = <<>> THEN <<row>>
    ELSE IF row.date < Head(sorted).date
         THEN <<row>> \o sorted
         ELSE <<Head(sorted)>> \o InsertByDate(row, Tail(sorted))

RECURSIVE SortByDate(_, _)
\* sort_values('Date'); rows of the same date keep their order.
SortByDate(rows, sorted) ==
    IF rows = <<>> THEN sorted
    ELSE SortByDate(Tail(rows), InsertByDate(Head(rows), sorted))

\* self.purchase_df[self.purchase_df['Item Name'] == item].sort_values('Date')
item_data(df, item_name) ==
    SortByDate(SelectSeq(df, LAMBDA r : r.item_name = item_name), <<>>)

TrendRow(item_name, first_price, last_price, change) ==
    [item |-> item_name, first_price |-> first_price, last_price |-> last_price,
     change |-> change]

RECURSIVE price_trend_rows(_, _)
price_trend_rows(items, df) ==
    IF items = <<>> THEN <<>>
    ELSE LET data == item_data(df, Head(items))
         IN  <<TrendRow(Head(items), data[1].rate, data[Len(data)].rate,
                        Change(data[1].rate, data[Len(data)].rate))>>
             \o price_trend_rows(Tail(items), df)

\* analysis.py RestaurantAnalyzer.price_trend_analysis
price_trend_analysis(df) == price_trend_rows(top_items(df), df)

RECURSIVE price_trends_rows(_, _)
price_trends_rows(items, df) ==
    IF items = <<>> THEN <<>>
    ELSE LET data == item_data(df, Head(items))
         IN  <<TrendRow(Head(items), data[1].rate, data[Len(data)].rate,
                        IF data[1].rate > 0
                        THEN RoundChange(Change(data[1].rate, data[Len(data)].rate))
                        ELSE Ratio(0, 1))>>
             \o price_trends_rows(Tail(items), df)

\* app.py RestaurantAnalyzer.price_trends
price_trends_of(df) == price_trends_rows(top_items(df), df)

\* One more row of purchase_report.csv, with its date and rate.
PurchasePriceRow ==
    \E i \in ItemNames, d \in DateInputs, r \in RateInputs :
        /\ ~Loaded
        /\ Len(purchase_df) < MaxRows
        /\ purchase_df' = Append(purchase_df, PriceRow(i, d, r))
        /\ UNCHANGED <<storevars, stk_df, leakage, analysisvars>>

PriceTrendAnalysis ==
    /\ price_trends' = [by |-> "analysis.py", rows |-> price_trend_analysis(purchase_df)]
    /\ UNCHANGED <<storevars, reportvars, sales_df, bom_df, variance, menu>>

\* GET /api/price-trends
ApiPriceTrends ==
    /\ price_trends' = [by |-> "app.py", rows |-> price_trends_of(purchase_df)]
    /\ UNCHANGED <<storevars, reportvars, sales_df, bom_df, variance, menu>>

NextPrices ==
    \/ PurchasePriceRow
    \/ PriceTrendAnalysis
    \/ ApiPriceTrends

SpecPrices == Init /\ [][NextPrices]_vars

----------------------------------------------------------------------------
(* Menu engineering.  A sales report row carries here its quantity sold,   *)
(* its revenue and its profit.  The mean margin is a float sum divided by  *)
(* a count: it is kept as that sum (in hundredths) and count, with the     *)
(* one case of the inputs where the float result is not the exact mean.    *)

MaxSales == 3

\* Dishes in index order.
DishOrder == <<"M", "N", "P">>

SoldQtys == {1, 3}

\* Revenue and profit of a row: a margin of 2/7, a sale that brought no
\* revenue, and a row of zeros.
MoneyInputs == {<<7, 2>>, <<0, 2>>, <<0, 0>>}

SalesRow(item_name, quantity, revenue, profit) ==
    [item_name |-> item_name, quantity |-> quantity, revenue |-> revenue,
     profit |-> profit]

\* The lists of finite margins, in hundredths, whose float mean is above
\* their exact mean: 28.57 + 28.57 + 28.57 is 85.71000000000001 and a third
\* of it 28.570000000000004.  No other list of the inputs has a value equal
\* to its exact mean and a float mean that differs from it.
MeanRoundsUp == {<<2857, 2857, 2857>>}

RECURSIVE ColumnSum(_, _, _)
\* groupby('Item Name').agg({...: 'sum'}) for one item; column is
\* "quantity", "revenue" or "profit".
ColumnSum(df, item_name, column) ==
    IF df = <<>> THEN 0
    ELSE (IF Head(df).item_name = item_name THEN Head(df)[column] ELSE 0)
         + ColumnSum(Tail(df), item_name, column)

RECURSIVE MenuRows(_, _)
\* The aggregate with its Profit Margin % column, in index order.
MenuRows(index, df) ==
    IF index = <<>> THEN <<>>
    ELSE <<[item_name |-> Head(index),
            quantity_sold |-> ColumnSum(df, Head(index), "quantity"),
            revenue |-> ColumnSum(df, Head(index), "revenue"),
            profit |-> ColumnSum(df, Head(index), "profit"),
            profit_margin |-> Percent(ColumnSum(df, Head(index), "profit"),
                                      ColumnSum(df, Head(index), "revenue"))]>>
         \o MenuRows(Tail(index), df)

RECURSIVE QuantitySum(_)
QuantitySum(rows) ==
    IF rows = <<>> THEN 0 ELSE Head(rows).quantity_sold + QuantitySum(Tail(rows))

RECURSIVE FiniteMargins(_)
\* The margins that are numbers, in hundredths.
FiniteMargins(rows) ==
    IF rows = <<>> THEN <<>>
    ELSE (IF Head(rows).profit_margin.kind = "num"
          THEN <<Head(rows).profit_margin.hundredths>> ELSE <<>>)
         \o FiniteMargins(Tail(rows))

RECURSIVE SeqSum(_)
SeqSum(seq) == IF seq = <<>> THEN 0 ELSE Head(seq) + SeqSum(Tail(seq))

HasMargin(rows, kind) == \E k \in 1..Len(rows) : rows[k].profit_margin.kind = kind

\* menu['Profit Margin %'].mean(): NaN is skipped, an infinite margin makes
\* the mean infinite, inf with -inf or no value at all makes it NaN.
margin_mean(rows) ==
    LET finite == FiniteMargins(rows)
        kind == IF HasMargin(rows, "inf") /\ HasMargin(rows, "-inf") THEN "nan"
                ELSE IF HasMargin(rows, "inf") THEN "inf"
                ELSE IF HasMargin(rows, "-inf") THEN "-inf"
                ELSE IF finite = <<>> THEN "nan"
                ELSE "num"
    IN  [kind |-> kind, sum |-> SeqSum(finite), count |-> Len(finite),
         up |-> finite \in MeanRoundsUp]

\* row['Profit Margin %'] >= avg_profitability
high_profit(margin, mean) ==
    /\ margin.kind # "nan"
    /\ mean.kind # "nan"
    /\ \/ margin.kind = "inf"
       \/ mean.kind = "-inf"
       \/ /\ margin.kind = "num"
          /\ mean.kind = "num"
          /\ \/ margin.hundredths * mean.count > mean.sum
             \/ margin.hundredths * mean.count = mean.sum /\ ~mean.up

\* row['Quantity Sold'] >= avg_popularity: whole numbers, an exact mean.
high_pop(quantity_sold, rows) ==
    quantity_sold * Len(rows) >= QuantitySum(rows)

\* analysis.py:219-230
classify_item(pop, profit) ==
    IF pop /\ profit THEN "STAR"
    ELSE IF pop /\ ~profit THEN "PLOW HORSE"
    ELSE IF ~pop /\ profit THEN "PUZZLE"
    ELSE "DOG"

\* app.py:123-129
classify(pop, profit) ==
    IF pop /\ profit THEN "STAR"
    ELSE IF pop THEN "PLOW HORSE"
    ELSE IF profit THEN "PUZZLE"
    ELSE "DOG"

Classified(row, class) ==
    [item_name |-> row.item_name, quantity_sold |-> row.quantity_sold,
     revenue |-> row.revenue, profit |-> row.profit,
     profit_margin |-> row.profit_margin, classification |-> class]

MenuIndex(df) == SelectSeq(DishOrder, LAMBDA n : n \in Grouped(df))

\* analysis.py RestaurantAnalyzer.menu_engineering_analysis
menu_engineering_analysis(df) ==
    LET rows == MenuRows(MenuIndex(df), df)
    IN  [by |-> "analysis.py",
         rows |-> [k \in 1..Len(rows) |->
                      Classified(rows[k],
                          classify_item(high_pop(rows[k].quantity_sold, rows),
                                        high_profit(rows[k].profit_margin,
                                                    margin_mean(rows))))],
         avg_profit |-> margin_mean(rows)]

\* app.py RestaurantAnalyzer.menu_engineering
menu_engineering(df) ==
    LET rows == MenuRows(MenuIndex(df), df)
    IN  [by |-> "app.py",
         rows |-> [k \in 1..Len(rows) |->
                      Classified(rows[k],
                          classify(high_pop(rows[k].quantity_sold, rows),
                                   high_profit(rows[k].profit_margin,
                                               margin_mean(rows))))],
         avg_profit |-> margin_mean(rows)]

\* One more row of sales_report.csv, with its revenue and profit.
SalesMenuRow ==
    \E i \in {"M", "N", "P"}, q \in SoldQtys, money \in MoneyInputs :
        /\ ~Loaded
        /\ Len(sales_df) < MaxSales
        /\ sales_df' = Append(sales_df, SalesRow(i, q, money[1], money[2]))
        /\ UNCHANGED <<storevars, reportvars, bom_df, variance, price_trends, menu>>

MenuEngineeringAnalysis ==
    /\ menu' = menu_engineering_analysis(sales_df)
    /\ UNCHANGED <<storevars, reportvars, sales_df, bom_df, variance, price_trends>>

\* GET /api/menu-engineering
ApiMenuEngineering ==
    /\ menu' = menu_engineering(sales_df)
    /\ UNCHANGED <<storevars, reportvars, sales_df, bom_df, variance, price_trends>>

NextMenu ==
    \/ SalesMenuRow
    \/ MenuEngineeringAnalysis
    \/ ApiMenuEngineering

SpecMenu == Init /\ [][NextMenu]_vars

----------------------------------------------------------------------------
(* Claims *)

\* The requests started so far are purchases, issues and manager updates
\* (without renaming) of item A, and A is a single row: the requests that
\* overlapped found the item already there.
OnExistingItemA ==
    /\ Len(inventory) = 1
    /\ \A k \in 1..Len(started) :
          /\ started[k].op \in {"purchase", "kitchen", "manager_update"}
          /\ started[k].item_name = "A"
          /\ started[k].new_name = "A"

\* C1: purchase, issue and manager operations are atomic read-modify-write
\* units: once every request on an existing item has finished, the item's
\* quantity and total_purchased are those of running the same requests one
\* after the other in some order, so no update is lost.
C1_SerialOutcome ==
    (AllIdle /\ OnExistingItemA) =>
        \E o \in Orders(Len(started)) :
            Ledger(SerialRun(<<>>, <<>>, started, o)) = Ledger(inventory)

Rows(inv) == {inv[k] : k \in 1..Len(inv)}

Exists(inv, item_name) == fetchone(inv, item_name) # <<>>

QtyOf(inv, item_name) == fetchone(inv, item_name)[1].quantity

TotalOf(inv, item_name) == fetchone(inv, item_name)[1].total_purchased

Max0(x) == IF x < 0 THEN 0 ELSE x

\* C2: after any sequence of purchase, issue and manager operations every
\* inventory item has quantity >= 0.
C2_QuantityNonNegative == \A r \in Rows(inventory) : r.quantity >= 0

\* C3: after any sequence of purchase, issue and manager operations every
\* inventory item has quantity <= total_purchased.
C3_QuantityWithinPurchased ==
    \A r \in Rows(inventory) : r.quantity <= r.total_purchased

\* C4: across every step, an item that exists before and after the step
\* has a total_purchased that did not decrease.
C4_TotalPurchasedMonotone ==
    [][\A r \in Rows(inventory) : \A n \in Rows(inventory') :
          r.item_name = n.item_name => n.total_purchased >= r.total_purchased]_vars

\* The outcome of an issue request is the refusal for lack of stock, with
\* the tables untouched.
RefusedForStock(r, inv, txns) ==
    /\ r.ok = FALSE
    /\ r.msg = "Not enough stock"
    /\ r.inventory = inv
    /\ r.transactions = txns

\* C5 as stated: an issue of qty > 0 on an existing item whose stored
\* quantity (not negative) is below qty by more than the 0.001 tolerance
\* fails with the not-enough-stock result and changes neither the
\* inventory nor the log.
C5_InsufficientStockRaw ==
    [][\A i \in ItemNames, q \in QtyInputs, d \in BOOLEAN :
          (/\ q > 0
           /\ Exists(inventory, i)
           /\ QtyOf(inventory, i) >= 0
           /\ QtyOf(inventory, i) + Tolerance < q
           /\ Serve(api_kitchen(inventory, transactions, i, q, d)))
          => (response' = Resp(FALSE, "Not enough stock") /\ UNCHANGED dbvars)]_vars

\* C5 amended: an issue of qty > 0 on an existing item fails with the
\* not-enough-stock result, and changes neither the inventory nor the log,
\* whenever round(qty, 3) exceeds round(quantity, 3) by more than 0.001.
C5_InsufficientStockRounded ==
    \A i \in ItemNames, q \in QtyInputs, d \in BOOLEAN :
        (/\ q > 0
         /\ Exists(inventory, i)
         /\ Round3(QtyOf(inventory, i)) + Tolerance < Round3(q))
        => RefusedForStock(api_kitchen(inventory, transactions, i, q, d),
                           inventory, transactions)

\* An issue has just been refused for lack of stock on an item that holds
\* 0.001 after one purchase: the refused request asked for 0.003.
C5_Witness ==
    /\ response = Resp(FALSE, "Not enough stock")
    /\ Exists(inventory, "A")
    /\ QtyOf(inventory, "A") = Milli
    /\ Len(transactions) = 1

\* C6 as stated: a purchase of qty > 0 adds exactly qty to the quantity and
\* to the total_purchased of an existing item, and creates a missing item
\* with quantity = total_purchased = qty.
C6_PurchaseAddsExactly ==
    [][\A i \in ItemNames, q \in QtyInputs :
          (q > 0 /\ Serve(api_purchase(inventory, transactions, i, Category, q, Unit)))
          => /\ response'.ok
             /\ Exists(inventory', i)
             /\ IF Exists(inventory, i)
                THEN /\ QtyOf(inventory', i) = QtyOf(inventory, i) + q
                     /\ TotalOf(inventory', i) = TotalOf(inventory, i) + q
                ELSE /\ QtyOf(inventory', i) = q
                     /\ TotalOf(inventory', i) = q]_vars

\* C6 amended: a purchase of qty > 0 sets an existing item's quantity to
\* round(quantity + round(qty, 3), 3) and its total_purchased to
\* round(total_purchased + round(qty, 3), 3), and creates a missing item
\* with quantity = total_purchased = round(qty, 3); every other row is
\* left as it was.
C6_PurchaseAddsRounded ==
    \A i \in ItemNames, q \in QtyInputs :
        q > 0 =>
        LET r == api_purchase(inventory, transactions, i, Category, q, Unit)
        IN  /\ r.ok
            /\ Exists(r.inventory, i)
            /\ IF Exists(inventory, i)
               THEN /\ QtyOf(r.inventory, i) = Round3(QtyOf(inventory, i) + Round3(q))
                    /\ TotalOf(r.inventory, i) = Round3(TotalOf(inventory, i) + Round3(q))
                    /\ Len(r.inventory) = Len(inventory)
               ELSE /\ QtyOf(r.inventory, i) = Round3(q)
                    /\ TotalOf(r.inventory, i) = Round3(q)
                    /\ Len(r.inventory) = Len(inventory) + 1
            /\ \A k \in 1..Len(inventory) :
                  inventory[k].item_name # i => r.inventory[k] = inventory[k]

\* Two purchases of item A have been served, of 0.003 and of 0.0014: the
\* second found the item, and it holds 0.004 of 0.004 purchased.
C6_Witness ==
    /\ response = Resp(TRUE, "Added")
    /\ Len(transactions) = 2
    /\ transactions[1].transaction_type = "purchase"
    /\ transactions[2].transaction_type = "purchase"
    /\ Exists(inventory, "A")
    /\ QtyOf(inventory, "A") = 4 * Milli
    /\ TotalOf(inventory, "A") = 4 * Milli

\* The purchase transaction add_item logs for a request.
PurchaseTxn(item_name, category, quantity, unit) ==
    Txn(item_name, category, Round3(quantity), unit, "purchase", "")

RECURSIVE PurchaseTxns(_)
PurchaseTxns(items) ==
    IF items = <<>> THEN <<>>
    ELSE <<PurchaseTxn(Head(items).item_name, Head(items).category,
                       Head(items).quantity, Head(items).unit)>>
         \o PurchaseTxns(Tail(items))

\* C7: a purchase is accepted if and only if its quantity is > 0: a single
\* purchase with qty <= 0 is rejected and changes neither the inventory nor
\* the log and one with qty > 0 succeeds, and a bulk upload logs and adds
\* only its rows with qty > 0.
C7_AcceptedIffPositive ==
    [][/\ \A i \in ItemNames, q \in QtyInputs :
             Serve(api_purchase(inventory, transactions, i, Category, q, Unit))
             => /\ response'.ok <=> q > 0
                /\ q <= 0 => UNCHANGED dbvars
       /\ \A items \in UploadInputs :
             Serve(api_purchase_upload(inventory, transactions, items))
             => transactions' = transactions \o
                   PurchaseTxns(SelectSeq(items, LAMBDA row : row.quantity > 0))]_vars

\* C8: every purchase call (a single purchase that reaches add_item, and
\* each row of a bulk upload) appends exactly one transaction of type
\* purchase with the item's name and the quantity add_item purchased (the
\* request's quantity rounded to three decimals), whether or not the item
\* existed, and leaves the earlier transactions as they were.
C8_PurchaseLogsOne ==
    /\ \A i \in ItemNames, q \in QtyInputs :
          q # 0 =>
          api_purchase(inventory, transactions, i, Category, q, Unit).transactions
            = Append(transactions, PurchaseTxn(i, Category, q, Unit))
    /\ \A items \in UploadInputs :
          api_purchase_upload(inventory, transactions, items).transactions
            = transactions \o PurchaseTxns(items)

\* The second of two purchases of item A has been logged: the first
\* created the item, the second found it.
C8_Witness ==
    /\ response = Resp(TRUE, "Added")
    /\ Len(inventory) = 1
    /\ transactions = <<PurchaseTxn("A", Category, 30, Unit),
                        PurchaseTxn("A", Category, 14, Unit)>>

\* The issue transaction remove_item logs for a request on a row.
IssueTxn(row, item_name, quantity) ==
    Txn(item_name, row.category, quantity, row.unit, "kitchen", "")

\* C9 as stated: a successful issue(item, qty), on an item whose quantity
\* is not negative, sets the item's quantity to max(0, quantity - qty),
\* leaves its total_purchased unchanged and appends exactly one issue
\* transaction for the item with quantity qty.
C9_IssueSubtractsExactly ==
    [][\A i \in ItemNames, q \in QtyInputs, d \in BOOLEAN :
          (/\ Exists(inventory, i)
           /\ QtyOf(inventory, i) >= 0
           /\ Serve(api_kitchen(inventory, transactions, i, q, d))
           /\ response'.ok)
          => /\ QtyOf(inventory', i) = Max0(QtyOf(inventory, i) - q)
             /\ TotalOf(inventory', i) = TotalOf(inventory, i)
             /\ transactions' =
                  Append(transactions, IssueTxn(fetchone(inventory, i)[1], i, q))]_vars

\* C9 amended: a successful issue(item, qty) sets the item's quantity to
\* max(0, round(quantity, 3) - round(qty, 3)), leaves its total_purchased
\* and every other row unchanged, and appends exactly one issue (kitchen)
\* transaction for the item with quantity round(qty, 3).
C9_IssueSubtractsRounded ==
    \A i \in ItemNames, q \in QtyInputs, d \in BOOLEAN :
        LET r == api_kitchen(inventory, transactions, i, q, d)
        IN  r.ok =>
            /\ Exists(inventory, i)
            /\ Len(r.inventory) = Len(inventory)
            /\ QtyOf(r.inventory, i) =
                 Max0(Round3(QtyOf(inventory, i)) - Round3(q))
            /\ TotalOf(r.inventory, i) = TotalOf(inventory, i)
            /\ \A k \in 1..Len(inventory) :
                  inventory[k].item_name # i => r.inventory[k] = inventory[k]
            /\ r.transactions =
                 Append(transactions, IssueTxn(fetchone(inventory, i)[1], i, Round3(q)))

\* An issue of 0.0014 has just been served on an item purchased as 0.003:
\* it holds 0.002 and the log ends with an issue of 0.001.
C9_Witness ==
    /\ response = Resp(TRUE, "Items removed successfully")
    /\ Len(transactions) = 2
    /\ transactions[1] = PurchaseTxn("A", Category, 30, Unit)
    /\ transactions[2].transaction_type = "kitchen"
    /\ transactions[2].quantity = Milli
    /\ QtyOf(inventory, "A") = 2 * Milli
    /\ TotalOf(inventory, "A") = 3 * Milli

RECURSIVE SumQty(_, _, _)
\* The sum of the quantities of the transactions of one item and one type.
SumQty(txns, item_name, type) ==
    IF txns = <<>> THEN 0
    ELSE (IF Head(txns).item_name = item_name /\ Head(txns).transaction_type = type
          THEN Head(txns).quantity ELSE 0)
         + SumQty(Tail(txns), item_name, type)

NoDeletion ==
    \A k \in 1..Len(transactions) : transactions[k].transaction_type # "manager_delete"

\* C10: after any sequence of purchase, issue, manager_add and manager_set
\* operations (no deletion, no pruning), for every inventory item the sum of
\* its purchase transactions minus the sum of its issue transactions equals
\* its current quantity.
C10_LogReconciles ==
    NoDeletion =>
        \A r \in Rows(inventory) :
            SumQty(transactions, r.item_name, "purchase")
              - SumQty(transactions, r.item_name, "kitchen") = r.quantity

\* The transaction manager_update_item logs for a change of quantity.
AdjustTxn(item_name, category, quantity, unit, type) ==
    Txn(item_name, category, quantity, unit, type, "Adjusted by Manager")

\* C11: a manager_set that succeeds on an existing item appends exactly one
\* transaction when the new quantity differs from the old one, of type
\* purchase with quantity new - old if it increased and of type kitchen
\* (issue) with quantity old - new if it decreased, with the note
\* 'Adjusted by Manager'; it appends nothing when the quantity is the same.
C11_ManagerSetLogsDifference ==
    \A o \in ItemNames, i \in ItemNames, q \in ManagerQtys :
        LET r   == api_manager_update(inventory, transactions, o, i, Category, q, Unit)
            old == QtyOf(inventory, o)
        IN  (Exists(inventory, o) /\ r.ok) =>
            r.transactions =
                IF q > old
                THEN Append(transactions, AdjustTxn(i, Category, q - old, Unit, "purchase"))
                ELSE IF q < old
                THEN Append(transactions, AdjustTxn(i, Category, old - q, Unit, "kitchen"))
                ELSE transactions

\* A manager has just set an item added as 0.003 down to 0.0003: the log
\* ends with a manager-adjusted issue of 0.0027.
C11_Witness ==
    /\ response = Resp(TRUE, "Item updated successfully")
    /\ Len(transactions) = 2
    /\ transactions[1].transaction_type = "manager_add"
    /\ transactions[2] = AdjustTxn("A", Category, 27, Unit, "kitchen")
    /\ QtyOf(inventory, "A") = 3

\* The outcome of a request is a failure with the given message and the
\* tables untouched.
Refused(r, inv, txns, msg) ==
    /\ r.ok = FALSE
    /\ r.msg = msg
    /\ r.inventory = inv
    /\ r.transactions = txns

\* C12: a manager_set that renames an item to the name of a different
\* existing item is rejected, and the inventory (both items) and the
\* transaction log are left as they were.
C12_RenameCollisionRejected ==
    \A o \in ItemNames, i \in ItemNames, q \in ManagerQtys :
        (o # i /\ Exists(inventory, o) /\ Exists(inventory, i)) =>
            Refused(api_manager_update(inventory, transactions, o, i, Category, q, Unit),
                    inventory, transactions, "An item with that name already exists")

\* A rename has just been rejected while items A and B both exist.
C12_Witness ==
    /\ response = Resp(FALSE, "An item with that name already exists")
    /\ Exists(inventory, "A")
    /\ Exists(inventory, "B")
    /\ Len(inventory) = 2

\* The deletion transaction manager_delete_item logs for a row.
DeleteTxn(row) ==
    Txn(row.item_name, row.category, row.quantity, row.unit,
        "manager_delete", "Deleted by manager")

\* C13: manager_delete on an existing item removes it from the inventory,
\* leaves the other items, and appends exactly one manager_delete
\* transaction with the item's name, category, quantity and unit as they
\* were before the delete; on an absent item it fails and changes neither
\* the inventory nor the log.
C13_DeleteSnapshot ==
    \A i \in ItemNames :
        LET r == api_manager_delete(inventory, transactions, i)
        IN  IF Exists(inventory, i)
            THEN /\ r.ok
                 /\ ~Exists(r.inventory, i)
                 /\ r.inventory = SelectSeq(inventory, LAMBDA row : row.item_name # i)
                 /\ r.transactions =
                      Append(transactions, DeleteTxn(fetchone(inventory, i)[1]))
            ELSE Refused(r, inventory, transactions, "Item not found")

\* Item A, purchased as 0.003, has just been deleted: the inventory is
\* empty and the log ends with the snapshot of A holding 0.003.
C13_Witness ==
    /\ response = Resp(TRUE, "Item deleted successfully")
    /\ inventory = <<>>
    /\ Len(transactions) = 2
    /\ transactions[1] = PurchaseTxn("A", Category, 30, Unit)
    /\ transactions[2].transaction_type = "manager_delete"
    /\ transactions[2].item_name = "A"
    /\ transactions[2].quantity = 30

\* The rows the low-stock rule selects, with the comparison made exactly.
LowStockRows(inv, threshold_percent) ==
    {r \in Rows(inv) :
        /\ r.total_purchased > 0
        /\ r.quantity * 100 < r.total_purchased * threshold_percent}

\* C14: the low-stock query returns exactly the inventory items with
\* total_purchased > 0 and quantity < total_purchased x threshold / 100,
\* the comparison being strict: an item whose quantity is exactly the
\* threshold is not returned (with total_purchased = 100, quantity 9 is
\* returned and quantity 10 is not).
C14_LowStockExact ==
    \A threshold_percent \in ThresholdPercents, up \in SUBSET ItemNames :
        Rows(get_low_stock_items(inventory, threshold_percent, up))
            = LowStockRows(inventory, threshold_percent)

\* Some inventory item has the category of that name.
Referenced(inv, name) == \E k \in 1..Len(inv) : inv[k].category = name

\* C15: deleting a category is blocked while any inventory item references
\* it: delete_category on an existing category fails and leaves the
\* categories (and the inventory) unchanged when at least one item has
\* that category, and removes the category, and only it, when none has.
C15_DeleteCategoryBlocked ==
    \A category_id \in CategoryIds :
        LET cat == category_by_id(categories, category_id)
            r   == api_delete_category(categories, category_seq, inventory, category_id)
        IN  cat # <<>> =>
            IF Referenced(inventory, cat[1].name)
            THEN /\ r.ok = FALSE
                 /\ r.msg = "Cannot delete: items use this category"
                 /\ r.categories = categories
                 /\ r.inventory = inventory
            ELSE /\ r.ok
                 /\ r.categories = SelectSeq(categories, LAMBDA c : c.id # category_id)
                 /\ r.inventory = inventory

\* The deletion of a category has just been refused: the category, renamed
\* to Sauce after an item was added under it, is still there and the item
\* has followed the rename.
C15_Witness ==
    /\ response = Resp(FALSE, "Cannot delete: items use this category")
    /\ \E k \in 1..Len(categories) : categories[k].name = "Sauce"
    /\ Referenced(inventory, "Sauce")

\* A failing ledger request answers success false with a message and
\* leaves the inventory and the log as they were.
LedgerFailureClean(r) ==
    r.ok = FALSE =>
        /\ r.msg # ""
        /\ r.inventory = inventory
        /\ r.transactions = transactions

\* A failing category request answers success false with a message and
\* leaves the categories and the inventory as they were.
CategoryFailureClean(r) ==
    r.ok = FALSE =>
        /\ r.msg # ""
        /\ r.categories = categories
        /\ r.category_seq = category_seq
        /\ r.inventory = inventory

\* C16: every failing ledger operation returns an explicit failure (success
\* flag false and a message) and leaves the inventory, the categories and
\* the transaction log exactly as they were; item not found, insufficient
\* stock, duplicate item on manager_add, rename collision, category in use
\* and category not found are such failures.
C16_FailuresLeaveNoTrace ==
    /\ \A i \in ItemNames, q \in {0, 30, 50} :
          LET there == Exists(inventory, i)
              add   == api_manager_add(inventory, transactions, i, Category, q, Unit)
              del   == api_manager_delete(inventory, transactions, i)
          IN  /\ LedgerFailureClean(add)
              /\ LedgerFailureClean(del)
              /\ there => ~add.ok
              /\ ~there => ~del.ok
              /\ \A d \in BOOLEAN :
                    LET issue == api_kitchen(inventory, transactions, i, q, d)
                    IN  /\ LedgerFailureClean(issue)
                        /\ (~there /\ q > 0) => ~issue.ok
                        /\ (there /\ Round3(QtyOf(inventory, i)) + Tolerance < Round3(q))
                              => ~issue.ok
              /\ \A n \in ItemNames :
                    LET upd == api_manager_update(inventory, transactions, i, n,
                                                  Category, q, Unit)
                    IN  /\ LedgerFailureClean(upd)
                        /\ ~there => ~upd.ok
                        /\ (there /\ n # i /\ Exists(inventory, n)) => ~upd.ok
    /\ \A category_id \in CategoryIds :
          LET cat == category_by_id(categories, category_id)
              del == api_delete_category(categories, category_seq, inventory, category_id)
          IN  /\ CategoryFailureClean(del)
              /\ cat = <<>> => ~del.ok
              /\ (cat # <<>> /\ Referenced(inventory, cat[1].name)) => ~del.ok
              /\ \A name \in CategoryNames :
                    LET upd == api_update_category(categories, category_seq, inventory,
                                                   category_id, name)
                    IN  /\ CategoryFailureClean(upd)
                        /\ cat = <<>> => ~upd.ok
    /\ \A name \in CategoryNames :
          CategoryFailureClean(api_add_category(categories, category_seq, inventory, name))

\* A category that already exists has just been refused a second time,
\* with an item in the inventory and its transaction in the log.
C16_Witness ==
    /\ response = Resp(FALSE, "Category already exists")
    /\ Len(inventory) = 1
    /\ Len(transactions) = 1
    /\ Len(categories) = 2

\* The log a ledger request leaves begins with the log it found.
Extends(r) ==
    /\ Len(r.transactions) >= Len(transactions)
    /\ SubSeq(r.transactions, 1, Len(transactions)) = transactions

\* Whatever ledger request is served next, it only appends to the log.
LedgerAppendsOnly ==
    /\ Extends(api_purchase_upload(inventory, transactions,
                                   <<UploadRow("A", 30), UploadRow("B", 0)>>))
    /\ \A i \in ItemNames, q \in {30} :
          /\ Extends(api_purchase(inventory, transactions, i, Category, q, Unit))
          /\ Extends(api_kitchen(inventory, transactions, i, q, FALSE))
          /\ Extends(api_manager_add(inventory, transactions, i, Category, q, Unit))
          /\ Extends(api_manager_delete(inventory, transactions, i))
          /\ \A n \in ItemNames :
                Extends(api_manager_update(inventory, transactions, i, n, Category, q, Unit))

\* C17: the transaction log is append-only: every ledger operation leaves
\* the existing transactions, and their dates, as they were and only
\* appends; the only step that removes records is the retention cleanup,
\* and every record it removes is dated more than 30 days before the
\* current date, the others being kept in order.
C17_AppendOnly ==
    [][LET n == Len(transactions)
       IN  /\ LedgerAppendsOnly
           /\ \/ /\ Len(transactions') >= n
                 /\ SubSeq(transactions', 1, n) = transactions
                 /\ SubSeq(created_at', 1, n) = created_at
              \/ /\ Transactions
                 /\ \E S \in SUBSET (1..n) :
                       /\ transactions' = Pick(transactions, S)
                       /\ created_at' = Pick(created_at, S)
                       /\ \A k \in (1..n) \ S : today - created_at[k] > RetentionDays]_vars

\* The history has just been asked 41 days after a first purchase of item
\* A and 30 days after a second: the cleanup removed the first record and
\* kept the second, which is answered.
C17_Witness ==
    /\ today = 41
    /\ Len(transactions) = 1
    /\ created_at = <<today - RetentionDays>>
    /\ Cardinality(history) = 1
    /\ Exists(inventory, "A")
    /\ TotalOf(inventory, "A") = 60

\* C18: in every ledger function that logs a transaction the INSERT into
\* the log runs after the statement that changes the inventory: a
\* connection that sees the new log row already sees the inventory the
\* function leaves, and the log the other connections read grows only at a
\* commit that installs that inventory in the same step.
C18_LogAfterMutation ==
    [][/\ \A t \in Threads :
             (pc[t] = "writing" /\ View(t).transactions # transactions)
                => View(t).inventory = local[t][1].result.inventory
       /\ (transactions' # transactions)
             => \E t \in Threads :
                   /\ pc[t] = "writing"
                   /\ View(t).transactions = transactions'
                   /\ inventory' = local[t][1].result.inventory
                   /\ transactions' = Append(transactions, transactions'[Len(transactions')])
                   /\ transactions'[Len(transactions')].item_name = local[t][1].req.item_name]_vars

\* Thread 1 has run both statements of an issue of item A and not yet
\* committed: its connection sees the new quantity and the log row, the
\* committed tables hold neither, and thread 2 has read the old row.
C18_Witness ==
    /\ pc[1] = "writing"
    /\ local[1][1].req.op = "kitchen"
    /\ local[1][1].done = 2
    /\ Len(View(1).transactions) = Len(transactions) + 1
    /\ View(1).inventory # inventory
    /\ pc[2] = "selected"

\* The percentage is the exact quotient, or 0 for an item never purchased.
ExactLeakage(row) ==
    IF row.total_purchased # 0
    THEN /\ row.leakage_pct.kind = "num"
         /\ row.leakage_pct.hundredths * row.total_purchased
               = 10000 * (row.total_purchased - row.total_issued)
    ELSE row.leakage_pct = Num(0)

\* C19: for every item of the leakage result computed from a non-empty
\* purchase report and a non-empty issue report, leakage_pct equals
\* (purchased - issued) / purchased x 100 when purchased is not 0 and
\* equals 0 when purchased is 0, an item issued but never purchased
\* included; it is never NaN or infinite.
C19_LeakageExactOrZero ==
    [][((LeakageWasteAnalysis \/ GenerateReport \/ ApiLeakage) /\ purchase_df # <<>> /\ stk_df # <<>>)
          => \A k \in 1..Len(leakage'.rows) : ExactLeakage(leakage'.rows[k])]_vars

\* The band a printed status or a report badge stands for.
Band(label) ==
    CASE label \in {"HIGH ALERT", "HIGH"} -> "high"
      [] label \in {"WARNING", "MEDIUM"} -> "warning"
      [] label \in {"", "OK"} -> "none"

\* A finite percentage, in hundredths, or the infinity it is.
Exceeds(pct, hundredths) ==
    \/ pct.kind = "inf"
    \/ pct.kind = "num" /\ pct.hundredths >= hundredths + 1

\* C20: the leakage status uses strict fixed thresholds: a row is HIGH ALERT
\* if and only if its leakage_pct > 15, WARNING if and only if
\* 10 < leakage_pct <= 15, and unflagged otherwise, so exactly 15 is WARNING
\* and exactly 10 is unflagged; every row gets exactly one band.
C20_StrictBands ==
    \A k \in 1..Len(leakage.status) :
        LET pct == leakage.rows[k].leakage_pct
            band == Band(leakage.status[k])
        IN  /\ band = "high" <=> Exceeds(pct, 1500)
            /\ band = "warning" <=> (Exceeds(pct, 1000) /\ ~Exceeds(pct, 1500))
            /\ band = "none" <=> ~Exceeds(pct, 1000)
            /\ pct = Num(1500) => band = "warning"
            /\ pct = Num(1000) => band = "none"

\* analysis.py has printed a row of exactly 15 % as WARNING and a row of
\* exactly 10 % without a status.
C20_Witness ==
    /\ leakage.by = "analysis.py"
    /\ Len(leakage.rows) = 2
    /\ leakage.rows[1].leakage_pct = Num(1500)
    /\ leakage.status[1] = "WARNING"
    /\ leakage.rows[2].leakage_pct = Num(1000)
    /\ leakage.status[2] = ""

RECURSIVE ComponentSum(_)
\* units_sold x qty_per_unit summed over the recipe components in S.
ComponentSum(S) ==
    IF S = {} THEN 0
    ELSE LET j == CHOOSE x \in S : TRUE
         IN  GroupSum(sales_df, bom_df[j].menu_item) * bom_df[j].quantity_required
             + ComponentSum(S \ {j})

\* The recipe components of an ingredient whose dish is in the sales.
SoldComponents(ingredient) ==
    {j \in 1..Len(bom_df) :
        /\ bom_df[j].ingredient = ingredient
        /\ \E k \in 1..Len(sales_df) : sales_df[k].item_name = bom_df[j].menu_item}

\* C21: in the variance result the theoretical need of an ingredient is the
\* sum of units_sold x qty_per_unit over its recipe components whose dish
\* appears in the sales, and every ingredient of the issue report is in the
\* result, with theoretical 0 when it has no such component.
C21_TheoreticalSum ==
    variance.by # "" =>
        /\ \A k \in 1..Len(variance.rows) :
              variance.rows[k].theoretical
                 = ComponentSum(SoldComponents(variance.rows[k].item_name))
        /\ \A n \in 1..Len(stk_df) :
              \E k \in 1..Len(variance.rows) :
                 /\ variance.rows[k].item_name = stk_df[n].item_name
                 /\ SoldComponents(stk_df[n].item_name) = {}
                       => variance.rows[k].theoretical = 0

\* Ingredient A is in two dishes, both sold twice, and needs 2 x 5 + 2 x 3;
\* ingredient B was issued and is in no recipe.
C21_Witness ==
    /\ variance.by = "analysis.py"
    /\ Len(variance.rows) = 2
    /\ \E k \in 1..2 :
          /\ variance.rows[k].item_name = "A"
          /\ variance.rows[k].theoretical = 16
    /\ \E k \in 1..2 :
          /\ variance.rows[k].item_name = "B"
          /\ variance.rows[k].theoretical = 0
          /\ variance.rows[k].actual_issued = 17

\* The percentage is the exact quotient, or 0 when nothing was needed.
ExactVariance(row) ==
    IF row.theoretical # 0
    THEN /\ row.variance_pct.kind = "num"
         /\ row.variance_pct.hundredths * row.theoretical
               = 10000 * (row.actual_issued - row.theoretical)
    ELSE row.variance_pct = Num(0)

\* C22: for every ingredient of the variance result, variance_pct equals
\* (actual_issued - theoretical) / theoretical x 100 when theoretical is not
\* 0 and equals 0 whenever theoretical is 0, whatever was issued, 0
\* included; it is never NaN or infinite.
C22_VarianceExactOrZero ==
    variance.by # "" =>
        \A k \in 1..Len(variance.rows) : ExactVariance(variance.rows[k])

\* a >= b on floats: false as soon as one of them is NaN.
AtLeast(a, b) ==
    /\ a.kind # "nan"
    /\ b.kind # "nan"
    /\ \/ a.kind = "inf"
       \/ b.kind = "-inf"
       \/ a.kind = "num" /\ b.kind = "num" /\ a.hundredths >= b.hundredths

\* C23: the variance result is in descending order of variance_pct, each
\* row's value being >= that of the row after it, and the leakage result
\* is likewise in descending order of leakage_pct.
C23_Descending ==
    /\ \A k \in 1..(Len(variance.rows) - 1) :
          AtLeast(variance.rows[k].variance_pct, variance.rows[k + 1].variance_pct)
    /\ \A k \in 1..(Len(leakage.rows) - 1) :
          AtLeast(leakage.rows[k].leakage_pct, leakage.rows[k + 1].leakage_pct)

\* The purchases of one item in the report.
PurchasesOf(item_name) ==
    {k \in 1..Len(purchase_df) : purchase_df[k].item_name = item_name}

\* The change is the exact quotient, or 0 when the first rate is 0.
ExactChange(row) ==
    IF row.first_price # 0
    THEN /\ row.change.kind = "num"
         /\ row.change.num * row.first_price
               = row.change.den * 100 * (row.last_price - row.first_price)
    ELSE row.change.kind = "num" /\ row.change.num = 0

\* C24: for each of the top 5 items by summed purchase amount, the price
\* change is (last_rate - first_rate) / first_rate x 100 over the item's
\* purchases in date order, and 0 when the first rate is 0: first 100 and
\* last 120 give +20, first 0 and last 50 give 0.
C24_PriceChange ==
    price_trends.by # "" =>
        /\ Len(price_trends.rows) <= TopItems
        /\ \A k \in 1..Len(price_trends.rows) :
              LET row == price_trends.rows[k]
              IN  /\ \E f \in PurchasesOf(row.item) :
                        /\ purchase_df[f].rate = row.first_price
                        /\ \A j \in PurchasesOf(row.item) :
                              purchase_df[f].date <= purchase_df[j].date
                  /\ \E l \in PurchasesOf(row.item) :
                        /\ purchase_df[l].rate = row.last_price
                        /\ \A j \in PurchasesOf(row.item) :
                              purchase_df[l].date >= purchase_df[j].date
                  /\ ExactChange(row)
                  /\ (row.first_price = 100 /\ row.last_price = 120)
                        => row.change = Ratio(2000, 100)
                  /\ (row.first_price = 0 /\ row.last_price = 50)
                        => row.change.num = 0

\* The dishes of the menu result with a given classification.
Group(class) == {k \in 1..Len(menu.rows) : menu.rows[k].classification = class}

\* The class that the two comparisons with the exact means give.
ClassOf(row) ==
    LET n == Len(menu.rows)
        pop == row.quantity_sold * n >= QuantitySum(menu.rows)
        profit == row.profit_margin.hundredths * n >= SeqSum(FiniteMargins(menu.rows))
    IN  IF pop /\ profit THEN "STAR"
        ELSE IF pop THEN "PLOW HORSE"
        ELSE IF profit THEN "PUZZLE"
        ELSE "DOG"

\* C25: on a menu whose margins are all numbers, every dish gets exactly
\* one of STAR, PLOW HORSE, PUZZLE and DOG, the one given by whether its
\* quantity sold is >= the mean quantity sold and its profit margin is >=
\* the mean margin, a value equal to the mean counting as high; the four
\* groups are disjoint and their sizes add up to the number of dishes.
C25_MenuClasses ==
    (menu.by # "" /\ \A k \in 1..Len(menu.rows) : menu.rows[k].profit_margin.kind = "num")
       => /\ \A k \in 1..Len(menu.rows) :
                menu.rows[k].classification = ClassOf(menu.rows[k])
          /\ Cardinality(Group("STAR")) + Cardinality(Group("PLOW HORSE"))
                + Cardinality(Group("PUZZLE")) + Cardinality(Group("DOG"))
                = Len(menu.rows)

\* C26: for every dish, profit_margin_pct equals profit / revenue x 100 when
\* revenue is not 0 and equals 0 when revenue is 0, so the mean margin used
\* as the classification threshold is a finite number.
C26_MarginExactOrZero ==
    (menu.by # "" /\ menu.rows # <<>>)
       => /\ \A k \in 1..Len(menu.rows) :
                LET row == menu.rows[k]
                IN  IF row.revenue # 0
                    THEN /\ row.profit_margin.kind = "num"
                         /\ row.profit_margin.hundredths * row.revenue
                               = 10000 * row.profit
                    ELSE row.profit_margin = Num(0)
          /\ menu.avg_profit.kind = "num"

\* The requests started so far are one purchase of item A followed by
\* issues of item A only.
IssuesAfterOnePurchase ==
    /\ started # <<>>
    /\ started[1].op = "purchase"
    /\ \A k \in 1..Len(started) :
          /\ started[k].item_name = "A"
          /\ k > 1 => started[k].op = "kitchen"

\* The issues in the log: those that reported success.
IssuesLogged ==
    {k \in 1..Len(transactions) : transactions[k].transaction_type = "kitchen"}

\* C27: whatever the interleaving of concurrent issue requests on one item,
\* stock is never over-issued: the quantities of the issues that succeeded
\* add up to no more than the quantity that was purchased before them,
\* within the tolerance of 0.001 for each issue.
C27_NeverOverIssued ==
    IssuesAfterOnePurchase =>
        SumQty(transactions, "A", "kitchen")
           <= SumQty(transactions, "A", "purchase") + Tolerance * Cardinality(IssuesLogged)

\* The requests started so far are purchases, manager adds and manager
\* updates.
OnlyAddsAndSets ==
    \A k \in 1..Len(started) :
        started[k].op \in {"purchase", "manager_add", "manager_update"}

\* C28: item_name is a unique key of the inventory: after any sequence and
\* any interleaving of concurrent purchase, manager add and manager set
\* (rename) requests, no two inventory rows have the same item_name.
C28_UniqueItemName ==
    OnlyAddsAndSets =>
        \A i, j \in 1..Len(inventory) :
            inventory[i].item_name = inventory[j].item_name => i = j

----------------------------------------------------------------------------
(* Sessions and roles (src/app.py).  Flask keeps the session dictionary in *)
(* a signed cookie of the browser: session[c] is the dictionary browser c  *)
(* sends with its requests, <<>> when it has no user_id and <<user>> with  *)
(* the user_id, username and role that login stored.  Every API route is   *)
(* its handler behind login_required and, for most, role_required.         *)

\* hashlib.sha256(password).hexdigest()
hash_password(password) == <<"sha256", password>>

User(id, username, password, role) ==
    [id |-> id, username |-> username, password |-> hash_password(password),
     role |-> role]

\* The users table after init_db.
default_users ==
    << User(1, "manager", "ashishsir7777", "manager"),
       User(2, "purchase_manager", "purchase123", "purchase"),
       User(3, "kitchen_manager", "kitchen123", "kitchen") >>

\* SELECT id, username, role FROM users WHERE username = ? AND password = ?
verify_user(users, username, password) ==
    LET m == SelectSeq(users, LAMBDA u : /\ u.username = username
                                         /\ u.password = hash_password(password))
    IN  IF m = <<>> THEN <<>>
        ELSE <<[user_id |-> Head(m).id, username |-> Head(m).username,
                role |-> Head(m).role]>>

\* POST /login : the session after it and the answer.
login(s, username, password) ==
    LET user == verify_user(default_users, username, password)
    IN  IF user # <<>>
        THEN [session |-> user, ok |-> TRUE, msg |-> user[1].role]
        ELSE [session |-> s, ok |-> FALSE, msg |-> "Invalid credentials"]

\* GET /logout : session.clear()
logout(s) == [session |-> <<>>, ok |-> TRUE, msg |-> "redirect to login"]

\* session.get('role')
Role(s) == IF s = <<>> THEN "" ELSE s[1].role

\* The answer that leaves the tables of result before as they are.
Answer(before, msg) == [before EXCEPT !.ok = FALSE, !.msg = msg]

\* The decorators: f is the answer of the decorated function, before the
\* tables as they are when the request arrives.
login_required(s, before, f) ==
    IF s = <<>> THEN Answer(before, "redirect to login") ELSE f

role_required_any(allowed_roles, s, before, f) ==
    IF s = <<>> THEN Answer(before, "redirect to login") ELSE f

role_required(allowed_roles, s, before, f) ==
    IF s = <<>> THEN Answer(before, "redirect to login")
    ELSE IF Role(s) \notin allowed_roles THEN Answer(before, "Access denied")
    ELSE f

\* The routes, each with the decorators it carries in app.py.
route_api_purchase(s, inv, txns, item_name, category, quantity, unit) ==
    LET before == Result(inv, txns, TRUE, "")
    IN  login_required(s, before, role_required({"purchase"}, s, before,
            api_purchase(inv, txns, item_name, category, quantity, unit)))

route_api_purchase_upload(s, inv, txns, items) ==
    LET before == Result(inv, txns, TRUE, "")
    IN  login_required(s, before, role_required({"purchase"}, s, before,
            api_purchase_upload(inv, txns, items)))

route_api_kitchen(s, inv, txns, item_name, quantity, drift) ==
    LET before == Result(inv, txns, TRUE, "")
    IN  login_required(s, before, role_required({"kitchen"}, s, before,
            api_kitchen(inv, txns, item_name, quantity, drift)))

route_api_manager_add(s, inv, txns, item_name, category, quantity, unit) ==
    LET before == Result(inv, txns, TRUE, "")
    IN  login_required(s, before, role_required({"manager"}, s, before,
            api_manager_add(inv, txns, item_name, category, quantity, unit)))

route_api_manager_update(s, inv, txns, original_name, item_name, category, quantity, unit) ==
    LET before == Result(inv, txns, TRUE, "")
    IN  login_required(s, before, role_required({"manager"}, s, before,
            api_manager_update(inv, txns, original_name, item_name, category,
                               quantity, unit)))

route_api_manager_delete(s, inv, txns, item_name) ==
    LET before == Result(inv, txns, TRUE, "")
    IN  login_required(s, before, role_required({"manager"}, s, before,
            api_manager_delete(inv, txns, item_name)))

route_api_add_category(s, cats, seq, inv, name) ==
    LET before == CatResult(cats, seq, inv, TRUE, "")
    IN  login_required(s, before, role_required({"manager"}, s, before,
            api_add_category(cats, seq, inv, name)))

route_api_update_category(s, cats, seq, inv, category_id, new_name) ==
    LET before == CatResult(cats, seq, inv, TRUE, "")
    IN  login_required(s, before, role_required({"manager"}, s, before,
            api_update_category(cats, seq, inv, category_id, new_name)))

route_api_delete_category(s, cats, seq, inv, category_id) ==
    LET before == CatResult(cats, seq, inv, TRUE, "")
    IN  login_required(s, before, role_required({"manager"}, s, before,
            api_delete_category(cats, seq, inv, category_id)))

\* GET /api/transactions carries login_required alone: any logged-in user
\* runs the retention cleanup.
route_api_transactions(s, txns, dates, hist, now) ==
    LET before == [transactions |-> txns, created_at |-> dates, history |-> hist,
                   ok |-> TRUE, msg |-> ""]
        r == api_transactions(txns, dates, now)
    IN  login_required(s, before,
            [transactions |-> r.transactions, created_at |-> r.created_at,
             history |-> r.history, ok |-> TRUE, msg |-> ""])

\* What the login form is sent: each user's own password, and a password
\* that is another user's.
Credentials ==
    { <<"manager", "ashishsir7777">>, <<"purchase_manager", "purchase123">>,
      <<"kitchen_manager", "kitchen123">>, <<"manager", "kitchen123">> }

Login(c) ==
    \E cred \in Credentials :
        LET r == login(session[c], cred[1], cred[2])
        IN  /\ session' = [session EXCEPT ![c] = r.session]
            /\ response' = Resp(r.ok, r.msg)
            /\ UNCHANGED <<inventory, transactions, created_at, concvars, low_stock,
                           catvars, today, history, reportvars, analysisvars,
                           sheets>>

Logout(c) ==
    LET r == logout(session[c])
    IN  /\ session[c] # <<>>
        /\ session' = [session EXCEPT ![c] = r.session]
        /\ response' = Resp(r.ok, r.msg)
        /\ UNCHANGED <<inventory, transactions, created_at, concvars, low_stock,
                       catvars, today, history, reportvars, analysisvars, sheets>>

\* The transactions the log holds at most while sessions are checked.
MaxSessionTxns == 1

ServeSession(r) ==
    /\ Len(r.transactions) <= MaxSessionTxns
    /\ Serve(r)

\* The quantity a session request purchases, issues or sets: 0.003.
SessionQty == 30

PurchaseAs(c) ==
    /\ ServeSession(route_api_purchase(session[c], inventory, transactions,
                                "A", Category, SessionQty, Unit))
    /\ UNCHANGED <<concvars, sidevars>>

PurchaseUploadAs(c) ==
    /\ ServeSession(route_api_purchase_upload(session[c], inventory, transactions,
                                       <<UploadRow("B", SessionQty)>>))
    /\ UNCHANGED <<concvars, sidevars>>

KitchenAs(c) ==
    /\ ServeSession(route_api_kitchen(session[c], inventory, transactions,
                               "A", SessionQty, FALSE))
    /\ UNCHANGED <<concvars, sidevars>>

ManagerAddAs(c) ==
    /\ ServeSession(route_api_manager_add(session[c], inventory, transactions,
                                   "A", Category, SessionQty, Unit))
    /\ UNCHANGED <<concvars, sidevars>>

ManagerUpdateAs(c) ==
    /\ ServeSession(route_api_manager_update(session[c], inventory, transactions,
                                      "A", "A", Category, 3, Unit))
    /\ UNCHANGED <<concvars, sidevars>>

ManagerDeleteAs(c) ==
    /\ ServeSession(route_api_manager_delete(session[c], inventory, transactions, "A"))
    /\ UNCHANGED <<concvars, sidevars>>

AddCategoryAs(c) ==
    /\ category_seq < MaxCategoryId
    /\ ServeCategory(route_api_add_category(session[c], categories, category_seq,
                                            inventory, "Sauce"))
    /\ UNCHANGED <<transactions, created_at, concvars, low_stock, today, history,
                   reportvars, analysisvars, session, sheets>>

UpdateCategoryAs(c) ==
    /\ ServeCategory(route_api_update_category(session[c], categories, category_seq,
                                               inventory, 1, "Sauce"))
    /\ UNCHANGED <<transactions, created_at, concvars, low_stock, today, history,
                   reportvars, analysisvars, session, sheets>>

DeleteCategoryAs(c) ==
    /\ ServeCategory(route_api_delete_category(session[c], categories, category_seq,
                                               inventory, 1))
    /\ UNCHANGED <<transactions, created_at, concvars, low_stock, today, history,
                   reportvars, analysisvars, session, sheets>>

TransactionsAs(c) ==
    LET r == route_api_transactions(session[c], transactions, created_at, history,
                                    today)
    IN  /\ transactions' = r.transactions
        /\ created_at' = r.created_at
        /\ history' = r.history
        /\ response' = Resp(r.ok, r.msg)
        /\ UNCHANGED <<inventory, concvars, low_stock, catvars, today,
                       reportvars, analysisvars, session, sheets>>

\* More days pass than the history retains.
TickMonth ==
    /\ today + RetentionDays + 1 <= MaxDay
    /\ today' = today + RetentionDays + 1
    /\ UNCHANGED <<inventory, transactions, created_at, response, concvars,
                   low_stock, catvars, history, reportvars, analysisvars, session, sheets>>

NextSession ==
    \/ \E c \in Clients : Login(c)
    \/ \E c \in Clients : Logout(c)
    \/ \E c \in Clients : PurchaseAs(c)
    \/ \E c \in Clients : PurchaseUploadAs(c)
    \/ \E c \in Clients : KitchenAs(c)
    \/ \E c \in Clients : ManagerAddAs(c)
    \/ \E c \in Clients : ManagerUpdateAs(c)
    \/ \E c \in Clients : ManagerDeleteAs(c)
    \/ \E c \in Clients : AddCategoryAs(c)
    \/ \E c \in Clients : UpdateCategoryAs(c)
    \/ \E c \in Clients : DeleteCategoryAs(c)
    \/ \E c \in Clients : TransactionsAs(c)
    \/ TickMonth

SpecSession == Init /\ [][NextSession]_vars

\* The tables of the ledger.
ledger == <<inventory, transactions, created_at, categories, category_seq>>

\* The role whose route writes a row of the log: the manager's rows carry
\* a note, a purchase and an issue carry none.
RoleOf(txn) == IF txn.notes = "" THEN txn.transaction_type ELSE "manager"

\* The answer r of a request leaves the inventory and the log as they are.
Untouched(r) ==
    /\ r.inventory = inventory
    /\ r.transactions = transactions

\* The answer r of a category request leaves the categories and the
\* inventory as they are.
CategoriesUntouched(r) ==
    /\ r.categories = categories
    /\ r.category_seq = category_seq
    /\ r.inventory = inventory

\* Whatever a browser with session s asks, the tables change only through
\* the routes of its role.
Gated(s) ==
    /\ Role(s) # "purchase" =>
          /\ \A i \in ItemNames, q \in QtyInputs :
                Untouched(route_api_purchase(s, inventory, transactions,
                                             i, Category, q, Unit))
          /\ \A items \in UploadInputs :
                Untouched(route_api_purchase_upload(s, inventory, transactions, items))
    /\ Role(s) # "kitchen" =>
          \A i \in ItemNames, q \in QtyInputs :
              Untouched(route_api_kitchen(s, inventory, transactions, i, q, FALSE))
    /\ Role(s) # "manager" =>
          /\ \A i \in ItemNames, q \in ManagerQtys :
                /\ Untouched(route_api_manager_add(s, inventory, transactions,
                                                   i, Category, q, Unit))
                /\ Untouched(route_api_manager_update(s, inventory, transactions,
                                                      i, i, Category, q, Unit))
                /\ Untouched(route_api_manager_delete(s, inventory, transactions, i))
          /\ \A category_id \in CategoryIds, name \in CategoryNames :
                /\ CategoriesUntouched(route_api_add_category(
                       s, categories, category_seq, inventory, name))
                /\ CategoriesUntouched(route_api_update_category(
                       s, categories, category_seq, inventory, category_id, name))
                /\ CategoriesUntouched(route_api_delete_category(
                       s, categories, category_seq, inventory, category_id))
    /\ s = <<>> =>
          LET r == route_api_transactions(s, transactions, created_at, history, today)
          IN  /\ r.transactions = transactions
              /\ r.created_at = created_at

\* A request that changed the ledger came with a session of the role its
\* route requires.
GatedStep ==
    \E c \in Clients :
        /\ ledger' # ledger => session[c] # <<>>
        /\ Len(transactions') > Len(transactions) =>
              Role(session[c]) = RoleOf(transactions'[Len(transactions')])
        /\ inventory' # inventory /\ transactions' = transactions =>
              Role(session[c]) = "manager"
        /\ <<categories, category_seq>>' # <<categories, category_seq>> =>
              Role(session[c]) = "manager"

\* C29: role-based access.  Across any sequence of login, logout and API
\* requests, a purchase changes the ledger only when the session's role is
\* 'purchase', an issue only when it is 'kitchen', and manager add, set and
\* delete and category changes only when it is 'manager'; a request with no
\* logged-in session (also after logout) or with another role leaves the
\* ledger unchanged.
C29_RoleBasedAccess ==
    [][(\A c \in Clients : Gated(session[c])) /\ GatedStep]_vars

\* A purchase was logged, the user logged out, and the next API request was
\* sent to the login page.
C29_Witness ==
    /\ \E k \in 1..Len(transactions) : RoleOf(transactions[k]) = "purchase"
    /\ \A c \in Clients : session[c] = <<>>
    /\ response = Resp(FALSE, "redirect to login")

----------------------------------------------------------------------------
(* The spreadsheet backend (src/sheets_db.py) beside the relational one.   *)
(* sheets holds the rows of the inventory and transactions worksheets      *)
(* under their header rows and what the last call returned.  The cells     *)
(* hold the floats as they were computed; sums of the quantities used here *)
(* are taken as exact.  A failure of the Sheets API itself (the except     *)
(* branches) is left out.                                                  *)

\* str.lower() on the item names in use.
lower(name) ==
    CASE name = "A" -> "a"
      [] name = "B" -> "b"
      [] OTHER -> name

SheetRow(item_name, category, quantity, unit, total_purchased) ==
    [item_name |-> item_name, category |-> category, quantity |-> quantity,
     unit |-> unit, total_purchased |-> total_purchased]

SheetTxn(item_name, category, quantity, unit, type) ==
    [item_name |-> item_name, category |-> category, quantity |-> quantity,
     unit |-> unit, type |-> type]

\* for idx, item in enumerate(items) : the first row whose name matches
\* without regard to case, 0 when there is none.
sheet_index(items, item_name) ==
    LET m == {k \in 1..Len(items) : lower(items[k].item_name) = lower(item_name)}
    IN  IF m = {} THEN 0 ELSE CHOOSE k \in m : \A j \in m : k <= j

sheets_add_item(sh, item_name, category, quantity, unit) ==
    LET items == sh.inventory
        idx   == sheet_index(items, item_name)
        inv   == IF idx # 0
                 THEN [items EXCEPT ![idx].quantity = @ + quantity,
                                    ![idx].total_purchased = @ + quantity]
                 ELSE Append(items, SheetRow(item_name, category, quantity, unit,
                                             quantity))
    IN  [inventory    |-> inv,
         transactions |-> Append(sh.transactions,
                                 SheetTxn(item_name, category, quantity, unit,
                                          "purchase")),
         ok |-> TRUE]

sheets_remove_item(sh, item_name, quantity) ==
    LET items == sh.inventory
        idx   == sheet_index(items, item_name)
    IN  IF idx = 0 THEN [sh EXCEPT !.ok = FALSE]
        ELSE IF items[idx].quantity >= quantity
        THEN [inventory    |-> [items EXCEPT ![idx].quantity = @ - quantity],
              transactions |-> Append(sh.transactions,
                                      SheetTxn(item_name, items[idx].category,
                                               quantity, items[idx].unit, "issue")),
              ok |-> TRUE]
        ELSE [sh EXCEPT !.ok = FALSE]

sheets_manager_add_item(sh, item_name, category, quantity, unit) ==
    LET items == sh.inventory
        idx   == sheet_index(items, item_name)
    IN  IF idx # 0
        THEN [sh EXCEPT !.inventory = [items EXCEPT ![idx].quantity = @ + quantity],
                        !.ok = TRUE]
        ELSE [sh EXCEPT !.inventory = Append(items, SheetRow(item_name, category,
                                                             quantity, unit, quantity)),
                        !.ok = TRUE]

\* The item names and quantities the operations are called with: a name in
\* both cases, 0.003 and 0.0014.
BackendItems == {"A", "a"}

BackendQtys == {14, 30}

\* One operation with the same arguments on both backends; started is the
\* sequence of operations so far.
Both(req, r, sh) ==
    /\ Len(started) < MaxReqs
    /\ started' = Append(started, req)
    /\ Serve(r)
    /\ sheets' = sh
    /\ UNCHANGED <<pc, local, low_stock, catvars, today, history, reportvars,
                   analysisvars, session>>

BackendPurchase ==
    \E i \in BackendItems, q \in BackendQtys :
        /\ Both(Req("purchase", i, i, q, FALSE),
                add_item(inventory, transactions, i, Category, q, Unit),
                sheets_add_item(sheets, i, Category, q, Unit))

BackendIssue ==
    \E i \in BackendItems, q \in BackendQtys :
        \E drift \in DriftOutcomes(inventory, i, q) :
            /\ Both(Req("kitchen", i, i, q, drift),
                    remove_item(inventory, transactions, i, q, drift),
                    sheets_remove_item(sheets, i, q))

BackendManagerAdd ==
    \E i \in BackendItems, q \in BackendQtys :
        /\ Both(Req("manager_add", i, i, q, FALSE),
                manager_add_item(inventory, transactions, i, Category, q, Unit),
                sheets_manager_add_item(sheets, i, Category, q, Unit))

NextBackends ==
    \/ BackendPurchase
    \/ BackendIssue
    \/ BackendManagerAdd

SpecBackends == Init /\ [][NextBackends]_vars

\* The quantity and total_purchased a backend reports for an item: <<>>
\* when it has no row for it.
Reported(row) ==
    IF row = <<>> THEN <<>>
    ELSE <<row[1].quantity, row[1].total_purchased>>

\* The spreadsheet's row of exactly that name, as get_inventory lists it.
SheetRowOf(item_name) ==
    LET m == SelectSeq(sheets.inventory, LAMBDA r : r.item_name = item_name)
    IN  IF m = <<>> THEN <<>> ELSE <<Head(m)>>

\* C30: the two backends implement the same ledger.  After any sequence of
\* purchase, issue and manager_add operations with identical arguments the
\* last operation succeeded on the spreadsheet backend exactly if it did on
\* the relational one, and every item has the same quantity and
\* total_purchased in both.
C30_BackendsAgree ==
    /\ started # <<>> => sheets.ok = response.ok
    /\ \A i \in BackendItems :
          Reported(SheetRowOf(i)) = Reported(fetchone(inventory, i))

====
